---- MODULE Spec2Model ----
(***************************************************************************)
(* Audio analysis pipeline of the PUBG weapon system: the API handler      *)
(* analyze_audio (backend/main.py), the Streamlit analysis tab (app.py)    *)
(* and the shared core logic/ai_core.py (load_local_models,                *)
(* extract_features, predict_cloud) with the audit log (utils/logger.py).  *)
(*                                                                         *)
(* One process is modelled.  It is either the FastAPI backend or a         *)
(* Streamlit server (runtime); it serves up to NReq analysis requests.     *)
(* Python strings that the code inspects character by character (the       *)
(* labels the local classifiers emit) are tuples of one-character strings. *)
(***************************************************************************)
EXTENDS Integers, Sequences, FiniteSets, TLC

\* ------------------------------------------------------------------ bounds
NReq == 2
\* the longest label enumerated character by character for the cleanup
MaxLabelLen == 3
\* clip lengths are taken within Edge samples of 0 and of the buffer length
Edge == 2

Req == 1..NReq

\* ------------------------------------------------------------------ values
\* A value placed in a report field: a Python str (s) or a float (sg,n,f:
\* sign, integer part, fractional digits without trailing zeros).
Str(s) == [t |-> "str", s |-> s, sg |-> 1, n |-> 0, f |-> <<>>]
Num(sg, n, f) == [t |-> "num", s |-> <<>>, sg |-> sg, n |-> n, f |-> f]
Inf(sg) == [t |-> "inf", s |-> <<>>, sg |-> sg, n |-> 0, f |-> <<>>]
NaN == [t |-> "nan", s |-> <<>>, sg |-> 1, n |-> 0, f |-> <<>>]

NA == Str(<<"N", "/", "A">>)

\* What a Python call does: it returns a value or raises an exception.
Return(v) == [raised |-> FALSE, exc |-> "", val |-> v]
Raise(e) == [raised |-> TRUE, exc |-> e, val |-> NA]

\* ------------------------------------------------------- Python str methods
Upper == <<"A","B","C","D","E","F","G","H","I","J","K","L","M",
           "N","O","P","Q","R","S","T","U","V","W","X","Y","Z">>
LowerOf == <<"a","b","c","d","e","f","g","h","i","j","k","l","m",
             "n","o","p","q","r","s","t","u","v","w","x","y","z">>
Digits == <<"0","1","2","3","4","5","6","7","8","9">>
Whitespace == {" ", "\t", "\n"}

IndexIn(c, tbl) == IF \E i \in 1..Len(tbl) : tbl[i] = c
                   THEN CHOOSE i \in 1..Len(tbl) : tbl[i] = c
                   ELSE 0

\* str.lower()
lower(s) == [i \in 1..Len(s) |->
               IF IndexIn(s[i], Upper) > 0 THEN LowerOf[IndexIn(s[i], Upper)] ELSE s[i]]

\* str.replace(old, ''): every non-overlapping occurrence, left to right
RECURSIVE remove(_, _)
remove(s, old) ==
    IF Len(s) < Len(old) THEN s
    ELSE IF SubSeq(s, 1, Len(old)) = old
         THEN remove(SubSeq(s, Len(old) + 1, Len(s)), old)
         ELSE <<Head(s)>> \o remove(Tail(s), old)

\* str.strip()
RECURSIVE lstrip(_)
lstrip(s) == IF s # <<>> /\ Head(s) \in Whitespace THEN lstrip(Tail(s)) ELSE s
RECURSIVE rstrip(_)
rstrip(s) == IF s # <<>> /\ s[Len(s)] \in Whitespace
             THEN rstrip(SubSeq(s, 1, Len(s) - 1)) ELSE s
strip(s) == rstrip(lstrip(s))

\* ------------------------------------------------------------ float(str)
IsDigits(s) == \A i \in 1..Len(s) : IndexIn(s[i], Digits) > 0
RECURSIVE DigitsToNat(_)
DigitsToNat(s) == IF s = <<>> THEN 0
                  ELSE 10 * DigitsToNat(SubSeq(s, 1, Len(s) - 1))
                       + (IndexIn(s[Len(s)], Digits) - 1)
RECURSIVE DropTrailingZeros(_)
DropTrailingZeros(s) == IF s # <<>> /\ s[Len(s)] = "0"
                        THEN DropTrailingZeros(SubSeq(s, 1, Len(s) - 1)) ELSE s
DotAt(s) == IF \E i \in 1..Len(s) : s[i] = "."
            THEN CHOOSE i \in 1..Len(s) : s[i] = "." /\ \A j \in 1..(i-1) : s[j] # "."
            ELSE 0

\* float() of an unsigned body: decimal literal, inf, infinity or nan.
\* (Labels are drawn from an alphabet without exponent or underscore forms.)
FloatBody(sg, b) ==
    LET ip == IF DotAt(b) = 0 THEN b ELSE SubSeq(b, 1, DotAt(b) - 1)
        fp == IF DotAt(b) = 0 THEN <<>> ELSE SubSeq(b, DotAt(b) + 1, Len(b))
    IN  IF lower(b) \in {<<"i","n","f">>, <<"i","n","f","i","n","i","t","y">>}
        THEN Return(Inf(sg))
        ELSE IF lower(b) = <<"n","a","n">>
        THEN Return(NaN)
        ELSE IF IsDigits(ip) /\ IsDigits(fp) /\ Len(ip) + Len(fp) >= 1
        THEN Return(Num(sg, DigitsToNat(ip), DropTrailingZeros(fp)))
        ELSE Raise("ValueError")

\* float(s) for a str s: surrounding whitespace is ignored, one optional sign
float_of_str(s) ==
    LET b == strip(s)
    IN  IF b = <<>> THEN Raise("ValueError")
        ELSE IF Head(b) = "-" THEN FloatBody(-1, Tail(b))
        ELSE IF Head(b) = "+" THEN FloatBody(1, Tail(b))
        ELSE FloatBody(1, b)

\* float(x) as analyze_audio calls it on a classifier's label
float(x) == IF x.t = "str" THEN float_of_str(x.s) ELSE Return(x)

\* --------------------------------------------------- remote service (HF Space)
\* A confidence is a float: 0.95 is Num(1, 0, <<"9","5">>), 0.0 is Num(1, 0, <<>>).
Zero == Num(1, 0, <<>>)
Conf95 == Num(1, 0, <<"9", "5">>)
Conf05 == Num(1, 0, <<"0", "5">>)

\* What the remote endpoint can answer: a dict (its keys; label, confidences
\* and scores items when present), or a plain str (text).
Resp(kind, keys, label, confidences, scores, text) ==
    [kind |-> kind, keys |-> keys, label |-> label, confidences |-> confidences,
     scores |-> scores, text |-> text, error |-> ""]
ErrorDict(msg) ==
    [kind |-> "dict", keys |-> {"error"}, label |-> "", confidences |-> <<>>,
     scores |-> <<>>, text |-> "", error |-> msg]

RespLabelConf ==
    Resp("dict", {"label", "confidences"}, "AKM",
         <<[label |-> "AKM", confidence |-> Conf95],
           [label |-> "M416", confidence |-> Conf05]>>, <<>>, "")
RespLabelOnly == Resp("dict", {"label"}, "AKM", <<>>, <<>>, "")
RespEmptyConf == Resp("dict", {"label", "confidences"}, "AKM", <<>>, <<>>, "")
RespScores ==
    Resp("dict", {"M416", "AKM"}, "", <<>>,
         <<[label |-> "M416", confidence |-> Conf05],
           [label |-> "AKM", confidence |-> Conf95]>>, "")
RespStr == Resp("str", {}, "", <<>>, <<>>, "AKM")
Responses == {RespLabelConf, RespLabelOnly, RespEmptyConf, RespScores, RespStr}

\* One remote call: creating the client fails, the prediction call fails
\* (timeout, connection loss: msg is the exception's message), or it answers.
RemoteOutcomes ==
    {[fail |-> "client", msg |-> "Connection refused", response |-> RespStr],
     [fail |-> "predict", msg |-> "Connection Timeout", response |-> RespStr]}
    \cup {[fail |-> "none", msg |-> "", response |-> x] : x \in Responses}
NoRemote == [fail |-> "unset", msg |-> "", response |-> RespStr]

predict_cloud_client_outside_try(o) ==
    IF o.fail = "client" THEN Raise(o.msg)
    ELSE IF o.fail = "predict" THEN Return(ErrorDict(o.msg))
    ELSE Return(o.response)

\* logic/ai_core.py predict_cloud: both Client(...) and client.predict(...)
\* are inside the try; any Exception becomes {"error": str(e)}.
predict_cloud(o) ==
    IF o.fail = "client" THEN Return(ErrorDict(o.msg))
    ELSE IF o.fail = "predict" THEN Return(ErrorDict(o.msg))
    ELSE Return(o.response)

\* ------------------------------------------------------------ report fields
InitCloud == [label |-> "Unknown", confidence |-> Zero]
InitLocal == [distance |-> NA, direction |-> NA]
InitResults == [cloud |-> InitCloud, local |-> InitLocal]

cloud_parse_unchecked(cloud, call) ==
    IF call.raised THEN cloud
    ELSE LET res == call.val IN
         IF res.kind = "dict"
         THEN IF "confidences" \in res.keys /\ res.confidences # <<>>
              THEN [cloud EXCEPT !.label = res.label,
                                 !.confidence = res.confidences[1].confidence]
              ELSE [cloud EXCEPT !.label = res.label]
         ELSE IF res.kind = "str"
         THEN [cloud EXCEPT !.label = res.text]
         ELSE cloud

\* backend/main.py analyze_audio, step 2: parse what predict_cloud gave.
\* call is the outcome of predict_cloud(tmp_path); an exception anywhere in
\* the block is caught by `except Exception` and leaves what was written.
cloud_parse(cloud, call) ==
    IF call.raised THEN cloud
    ELSE LET res == call.val IN
         IF res.kind = "dict" /\ "label" \in res.keys
         THEN IF "confidences" \in res.keys
              THEN IF res.confidences = <<>>
                   THEN [cloud EXCEPT !.label = res.label]       \* IndexError, caught
                   ELSE [cloud EXCEPT !.label = res.label,
                                      !.confidence = res.confidences[1].confidence]
              ELSE [cloud EXCEPT !.label = res.label]
         ELSE IF res.kind = "str"
         THEN [cloud EXCEPT !.label = res.text]
         ELSE cloud

\* ------------------------------------------------------- local model package
\* data/processed/weapon_classifier.pkl: absent, unreadable (joblib.load
\* raises), the multi-task package {"models": {distance, direction, ..}},
\* what scripts/train_model.py dumps ({"model": clf, "feature_names": ..}),
\* or a pickled bare estimator.
PkgFiles == {"absent", "corrupt", "full", "train_dict", "bare_clf"}
\* scripts/train_model.py train: joblib.dump({"model": clf, "feature_names":
\* list(X.columns)}, MODEL_FILE), one classifier (the weapon's) under "model"
train_model_dump == "train_dict"

load_local_models_body_no_except(file) ==
    IF file = "absent" THEN Return("None")
    ELSE IF file = "corrupt" THEN Raise("UnpicklingError")
    ELSE Return(file)

\* logic/ai_core.py load_local_models, the function body (one read of the file)
load_local_models_body(file) ==
    IF file = "absent" THEN Return("None")            \* os.path.exists is False
    ELSE IF file = "corrupt" THEN Return("None")      \* joblib.load raised, caught
    ELSE Return(file)

\* app.py load_model, the function body
load_model_body(file) ==
    IF file = "absent" THEN Return("None")
    ELSE IF file = "corrupt" THEN Return("None")
    ELSE Return(file)

cache_resource_always(rt) == TRUE

\* logic/ai_core.py _cache_resource: st.cache_resource wraps the loader only
\* when a Streamlit runtime exists at import time; otherwise the plain function.
cache_resource(rt) == rt = "streamlit"

\* `if local_models:` -- None is falsy, a non-empty dict or an estimator is not
truthy(lm) == lm # "None"

models_of_lenient(lm) ==
    IF lm = "full" THEN Return("models")
    ELSE IF lm = "train_dict" THEN Return("models")
    ELSE Raise("TypeError")

\* local_models['models'][task]: KeyError on the train_model.py dict, TypeError
\* on a bare estimator
models_of(lm) ==
    IF lm = "full" THEN Return("models")
    ELSE IF lm = "train_dict" THEN Raise("KeyError")
    ELSE Raise("TypeError")

\* The uploaded clip: not decodable (librosa.load raises), decodable but the
\* feature computation raises, or fine.
Audio == {"undecodable", "featfail", "ok"}

extract_features_silent_buffer(audio) ==
    IF audio = "undecodable" THEN Return("feats")
    ELSE IF audio = "featfail" THEN Return("None")
    ELSE Return("feats")

\* logic/ai_core.py extract_features: every Exception is caught, None returned
extract_features(audio) ==
    IF audio = "undecodable" THEN Return("None")
    ELSE IF audio = "featfail" THEN Return("None")
    ELSE Return("feats")

\* What classifier.predict(feats)[0] does: raises (sklearn's ValueError on a
\* feature-count mismatch) or returns a label, a str or a number.
DEGREE_SIGN == "<deg>"
Label100m == Str(<<"1", "0", "0", "m">>)
LabelFar == Str(<<"F", "a", "r">>)
Label50 == Num(1, 50, <<>>)
Label45deg == Str(<<"4", "5", DEGREE_SIGN>>)
LabelNorth == Str(<<"N", "o", "r", "t", "h">>)
Unused == Raise("unused")
DistOutcomes == {Raise("ValueError"), Return(Label100m), Return(LabelFar), Return(Label50)}
DirOutcomes == {Raise("ValueError"), Return(Label45deg), Return(LabelNorth)}

\* The inner try of a cleanup: `results[..] = float(..)`, and
\* `except ValueError: results[..] = raw`; any other exception leaves it.
except_ValueError(raw, parsed) ==
    IF parsed.raised /\ parsed.exc = "ValueError" THEN Return(raw) ELSE parsed

distance_cleanup_keeps_unit(raw) ==
    except_ValueError(raw, IF raw.t = "str"
                           THEN float(Str(strip(lower(raw.s))))
                           ELSE float(raw))

\* backend/main.py analyze_audio, distance cleanup: what the block does with
\* raw_dist (the value written to results["local"]["distance"], or a raise)
distance_cleanup(raw) ==
    except_ValueError(raw, IF raw.t = "str"
                           THEN float(Str(strip(remove(lower(raw.s), <<"m">>))))
                           ELSE float(raw))

direction_cleanup_reports_cleaned(raw) ==
    LET clean_dir == strip(remove(remove(lower(raw.s), <<DEGREE_SIGN>>),
                                  <<"d", "e", "g", "r", "e", "e">>))
    IN  IF raw.t # "str" THEN float(raw)
        ELSE IF float(Str(clean_dir)).raised THEN Return(Str(clean_dir))
        ELSE float(Str(clean_dir))

\* backend/main.py analyze_audio, direction cleanup
direction_cleanup(raw) ==
    except_ValueError(raw, IF raw.t = "str"
                           THEN float(Str(strip(remove(remove(lower(raw.s), <<DEGREE_SIGN>>),
                                                       <<"d", "e", "g", "r", "e", "e">>))))
                           ELSE float(raw))

\* the values the two cleanups write
clean_distance(raw) == distance_cleanup(raw).val
clean_direction(raw) == direction_cleanup(raw).val

\* backend/main.py analyze_audio, step 3: one try/except Exception around the
\* whole local branch.  lm is what load_local_models() returned, d and g what
\* the distance and the direction classifier do on the features.
local_branch(local, lm, audio, d, g) ==
    IF ~truthy(lm) THEN local
    ELSE IF extract_features(audio).raised THEN local   \* caught by except Exception
    ELSE IF extract_features(audio).val = "None" THEN local
    ELSE IF models_of(lm).raised THEN local       \* caught by except Exception
    ELSE IF d.raised THEN local                   \* line 316 raised, caught
    ELSE IF g.raised THEN local                   \* line 317 raised, caught
    ELSE [local EXCEPT !.distance = clean_distance(d.val),
                       !.direction = clean_direction(g.val)]

results_after_local_reset(results, lm, audio, d, g) ==
    IF local_branch(results.local, lm, audio, d, g) = InitLocal
    THEN InitResults
    ELSE [results EXCEPT !.local = local_branch(results.local, lm, audio, d, g)]

\* The report after each of the two branches of analyze_audio: each block
\* writes its own half of `results`, also when it ends in its except clause.
results_after_cloud(results, call) ==
    [results EXCEPT !.cloud = cloud_parse(results.cloud, call)]
results_after_local(results, lm, audio, d, g) ==
    [results EXCEPT !.local = local_branch(results.local, lm, audio, d, g)]

\* app.py main_app, local inference: raw labels, no cleanup; `except: pass`
ui_local_branch(local, lm, audio, d, g) ==
    IF ~truthy(lm) THEN local
    ELSE IF extract_features(audio).raised THEN local
    ELSE IF extract_features(audio).val = "None" THEN local
    ELSE IF models_of(lm).raised THEN local
    ELSE IF d.raised THEN local
    ELSE IF g.raised THEN [local EXCEPT !.distance = d.val]
    ELSE [local EXCEPT !.distance = d.val, !.direction = g.val]

\* ------------------------------------------------------------- audit log
log_action_reraise(coll, db, user_id, action_type, details, insert) ==
    IF db = "none" THEN Return(coll)
    ELSE IF insert = "fail" THEN Raise("PyMongoError")
    ELSE Return(Append(coll, [user_id |-> user_id, action |-> action_type,
                              level |-> "INFO", details |-> DOMAIN details]))

\* utils/logger.py log_action: no handle -> return; insert_one raising is caught.
\* The call's outcome; its value is the logs collection afterwards.  Of the
\* details dict an entry keeps the keys, not the payload.
log_action(coll, db, user_id, action_type, details, insert) ==
    IF db = "none" THEN Return(coll)
    ELSE IF insert = "fail" THEN Return(coll)         \* except Exception: logger.error
    ELSE Return(Append(coll, [user_id |-> user_id, action |-> action_type,
                              level |-> "INFO", details |-> DOMAIN details]))

\* app.py main_app, cloud inference: the three response shapes.  cloud is the
\* (label, confidence) pair shown, NoCloudResult while cloud_result is None.
NoCloudResult == [label |-> "<None>", confidence |-> Zero]
FracLt(a, b) ==
    \E i \in 1..Len(b) :
        /\ \A j \in 1..(i - 1) : j <= Len(a) /\ a[j] = b[j]
        /\ \/ i > Len(a) /\ b[i] # "0"
           \/ i <= Len(a) /\ IndexIn(a[i], Digits) < IndexIn(b[i], Digits)
Lt(a, b) == a.n < b.n \/ (a.n = b.n /\ FracLt(a.f, b.f))
\* max(result, key=result.get): the first item with the greatest score
ArgMax(items) ==
    CHOOSE i \in 1..Len(items) :
        /\ \A j \in 1..Len(items) : ~Lt(items[i].confidence, items[j].confidence)
        /\ \A j \in 1..(i - 1) : Lt(items[j].confidence, items[i].confidence)
ui_cloud_parse(cloud, call) ==
    IF call.raised THEN cloud
    ELSE LET res == call.val IN
         IF res.kind = "dict" /\ "confidences" \in res.keys
         THEN IF "label" \notin res.keys \/ res.confidences = <<>>
              THEN cloud                                   \* KeyError / IndexError
              ELSE [label |-> res.label, confidence |-> res.confidences[1].confidence]
         ELSE IF res.kind = "dict"
         THEN IF "label" \in res.keys
              THEN [label |-> "label", confidence |-> Str(<<"A", "K", "M">>)]
              ELSE IF res.scores = <<>> THEN cloud         \* max() of empty: ValueError
              ELSE [label |-> res.scores[ArgMax(res.scores)].label,
                    confidence |-> res.scores[ArgMax(res.scores)].confidence]
         ELSE [label |-> "<parse error>", confidence |-> Zero]

\* ===================================================================== state
VARIABLES
    runtime,   \* "api": the FastAPI backend process; "streamlit": the Streamlit server
               \* running app.py; "tabs": the Streamlit server running ui/main_tabs.py
    pkgFile,   \* what data/processed/weapon_classifier.pkl holds (written offline,
               \* before the process starts)
    cache,     \* st.cache_resource's entry for the model loader
    loads,     \* how many times the loader's body has run (reads of the package file)
    req,       \* the analysis requests, each with its position and locals
    files,     \* audio files on disk: -1 absent, 0 incomplete, r the clip of request r
    logs,      \* the logs collection (each entry without its details payload)
    clean,     \* one run of a label cleanup on its own: the task, the raw label,
               \* what the cleanup did
    feat,      \* one run of a feature extractor on its own: the clip, the sample
               \* buffer, the features, and what training makes of them
    database,  \* what get_db() returns in the process: "up" (a handle) or "none"
    users,     \* the users collection, in insertion order
    game_weapons,  \* the game_weapons collection: weapon name -> document
    calls,     \* the account and inventory handlers in flight, one per worker thread
    started    \* how many requests the workers have taken

pipeline == <<runtime, pkgFile, cache, loads, req, files, logs>>
store == <<database, users, game_weapons, calls, started>>
calc == <<clean, feat, store>>
vars == <<runtime, pkgFile, cache, loads, req, files, logs, clean, feat,
          database, users, game_weapons, calls, started>>

TempUpload == <<"temp_upload.mp3", 0>>
Tmp(r) == <<"tmp", r>>
Paths == {TempUpload} \cup {Tmp(r) : r \in Req}

NoCall == [raised |-> FALSE, exc |-> "unset", val |-> RespStr]
NoResponse == [kind |-> "none", status |-> "", data |-> InitResults]
Report(results) == [kind |-> "report", status |-> "success", data |-> results]
Escaped(e) == [kind |-> "exception", status |-> e, data |-> InitResults]

Idle ==
    [pc |-> "idle", remote |-> NoRemote, cloud_call |-> NoCall, sent |-> -1,
     early |-> FALSE, read |-> "unset", load_raised |-> FALSE, lm |-> "unset",
     audio |-> "unset",
     dist |-> Unused, dir |-> Unused, audit |-> "unset",
     results |-> InitResults, response |-> NoResponse]

\* When the response has gone out the handler's frame is gone; of a finished
\* request the model keeps when it arrived, what the loader gave it, and the
\* kind and status of its response.
Finished(q) ==
    [Idle EXCEPT !.pc = "done", !.early = q.early, !.read = q.read, !.lm = q.lm,
                 !.response = [q.response EXCEPT !.data = InitResults]]

NoClean == [pc |-> "none", task |-> "none", raw |-> NA, out |-> Unused]
NoOut == [kind |-> "unset", items |-> <<>>]
NoFeat == [pc |-> "none", by |-> "none", clip |-> [decodable |-> FALSE, n |-> 0],
           y |-> <<>>, out |-> NoOut, columns |-> <<>>, feature_names |-> <<>>]

\* the analysis pipeline on its own: no account request is made
NoStore ==
    /\ database = "none"
    /\ users = <<>>
    /\ game_weapons = <<>>
    /\ calls = <<>>
    /\ started = 0

Init ==
    /\ NoStore
    /\ runtime \in {"api", "streamlit", "tabs"}
    /\ pkgFile \in PkgFiles
    /\ cache = [filled |-> FALSE, val |-> "None"]
    /\ loads = 0
    /\ req = [r \in Req |-> Idle]
    /\ files = [p \in Paths |-> -1]
    /\ logs = <<>>
    /\ clean = NoClean
    /\ feat = NoFeat

LoadHit_never(cached) == FALSE

\* A call of a loader: through st.cache_resource when cached (a hit returns the
\* stored value; a miss runs the body under the cache's lock and stores what
\* it returned), else the plain function.
LoadHit(cached) ==
    cached /\ cache.filled
LoadResult(cached, body) == IF LoadHit(cached) THEN Return(cache.val) ELSE body
AfterLoad(cached, body) ==
    /\ loads' = IF LoadHit(cached) THEN loads ELSE loads + 1
    /\ cache' = IF cached /\ ~cache.filled /\ ~body.raised
                THEN [filled |-> TRUE, val |-> body.val] ELSE cache

\* What the two classifiers of the loaded package do on the clip's features:
\* defined when the package has them and the clip has features.
HasFeatures(audio) ==
    ~extract_features(audio).raised /\ extract_features(audio).val # "None"
DistFor(lm, audio) ==
    IF truthy(lm) /\ HasFeatures(audio) /\ ~models_of(lm).raised
    THEN DistOutcomes ELSE {Unused}
DirFor(lm, audio) ==
    IF truthy(lm) /\ HasFeatures(audio) /\ ~models_of(lm).raised
    THEN DirOutcomes ELSE {Unused}

\* ============================================ backend/main.py analyze_audio
\* The handler is `async def` and never awaits: the event loop runs it from
\* its first statement to its return before it starts another one.
Running == {"cloud", "waiting", "local", "log", "finally"}

\* POST /api/analyze is received; requests are numbered in arrival order
arrive(r) ==
    /\ runtime = "api"
    /\ req[r].pc = "idle"
    /\ \A q \in 1..(r - 1) : req[q].pc # "idle"
    /\ req' = [req EXCEPT ![r].pc = "queued", ![r].early = (loads = 0)]
    /\ UNCHANGED <<runtime, pkgFile, cache, loads, files, logs>>
    /\ UNCHANGED calc

\* step 1: NamedTemporaryFile(delete=False) and copyfileobj, before the try.
\* A failing copy leaves the handler with the exception.
analyze_begin(r) ==
    /\ runtime = "api"
    /\ req[r].pc = "queued"
    /\ \A q \in Req : req[q].pc \notin Running
    /\ \E up \in {"ok", "copy_fail"} :
        IF up = "ok"
        THEN /\ files' = [files EXCEPT ![Tmp(r)] = r]
             /\ req' = [req EXCEPT ![r].pc = "cloud", ![r].results = InitResults]
        ELSE /\ files' = [files EXCEPT ![Tmp(r)] = 0]
             /\ req' = [req EXCEPT
                          ![r] = Finished([req[r] EXCEPT !.response = Escaped("OSError")])]
    /\ UNCHANGED <<runtime, pkgFile, cache, loads, logs>>
    /\ UNCHANGED calc

\* step 2: predict_cloud(tmp_path) and the parse of its result
analyze_cloud(r) ==
    /\ req[r].pc = "cloud"
    /\ \E o \in RemoteOutcomes :
        LET call == predict_cloud(o) IN
        req' = [req EXCEPT ![r].pc = "local",
                           ![r].remote = o,
                           ![r].cloud_call = call,
                           ![r].sent = files[Tmp(r)],
                           ![r].results = results_after_cloud(req[r].results, call)]
    /\ UNCHANGED <<runtime, pkgFile, cache, loads, files, logs>>
    /\ UNCHANGED calc

\* The service accepts the upload and never answers. Client(HF_SPACE_ID) and
\* client.predict(...) are given no timeout and the callers set none around
\* them: the caller stays inside the call, there is no step out of it.
CallingRemote == {"cloud", "ui_predict", "tab_predict"}
predict_never_returns(r) ==
    /\ req[r].pc \in CallingRemote
    /\ req' = [req EXCEPT
            ![r].pc = "waiting",
            ![r].sent = files[IF runtime = "streamlit" THEN TempUpload ELSE Tmp(r)]]
    /\ UNCHANGED <<runtime, pkgFile, cache, loads, files, logs>>
    /\ UNCHANGED calc

\* step 3: load_local_models(), extract_features, both predictions, cleanup
analyze_local(r) ==
    /\ req[r].pc = "local"
    /\ LET cached == cache_resource(runtime)
           body == load_local_models_body(pkgFile)
           got == LoadResult(cached, body)
           lm == IF got.raised THEN "None" ELSE got.val
       IN  /\ AfterLoad(cached, body)
           /\ \E audio \in Audio : \E d \in DistFor(lm, audio) : \E g \in DirFor(lm, audio) :
                req' = [req EXCEPT
                    ![r].pc = "log",
                    ![r].read = IF LoadHit(cached) THEN "cached" ELSE pkgFile,
                    ![r].load_raised = got.raised,
                    ![r].lm = lm,
                    ![r].audio = audio,
                    ![r].dist = d,
                    ![r].dir = g,
                    ![r].results =
                        IF got.raised THEN req[r].results         \* except Exception
                        ELSE results_after_local(req[r].results, lm, audio, d, g)]
    /\ UNCHANGED <<runtime, pkgFile, files, logs>>
    /\ UNCHANGED calc

\* the audit log and `return {"status": "success", "data": results}`
analyze_log(r) ==
    /\ req[r].pc = "log"
    /\ \E xid \in {"", "s1"} : \E db \in {"none", "up"} : \E insert \in {"ok", "fail"} :
        /\ (db = "none" \/ xid = "") => insert = "ok"
        /\ LET logged == db # "none" /\ xid # ""
               call == IF logged
                       THEN log_action(logs, db, xid, "AI_ANALYZE",
                                       [result |-> req[r].results], insert)
                       ELSE Return(logs)
           IN  /\ logs' = IF call.raised THEN logs ELSE call.val
               /\ req' = [req EXCEPT
                    ![r].pc = "finally",
                    ![r].audit = IF ~logged THEN "skipped"
                                 ELSE IF insert = "fail" THEN "failed" ELSE "logged",
                    ![r].response = IF call.raised THEN Escaped(call.exc)
                                    ELSE Report(req[r].results)]
    /\ UNCHANGED <<runtime, pkgFile, cache, loads, files>>
    /\ UNCHANGED calc

\* finally: remove the temporary file if it exists; the response goes out
analyze_finally(r) ==
    /\ req[r].pc = "finally"
    /\ files' = [files EXCEPT ![Tmp(r)] = -1]
    /\ req' = [req EXCEPT ![r] = Finished(req[r])]
    /\ UNCHANGED <<runtime, pkgFile, cache, loads, logs>>
    /\ UNCHANGED calc

\* ================================================ app.py main_app, AI tab
\* Every browser session runs the script in its own thread; the steps of
\* different sessions interleave.
ui_click(r) ==
    /\ runtime = "streamlit"
    /\ req[r].pc = "idle"
    /\ \A q \in 1..(r - 1) : req[q].pc # "idle"
    /\ req' = [req EXCEPT ![r].pc = "ui_client",
                          ![r].early = (loads = 0),
                          ![r].results = [cloud |-> NoCloudResult, local |-> InitLocal]]
    /\ UNCHANGED <<runtime, pkgFile, cache, loads, files, logs>>
    /\ UNCHANGED calc

\* Client(HF_SPACE_ID), then the upload is written to "temp_upload.mp3"
ui_client(r) ==
    /\ req[r].pc = "ui_client"
    /\ \E ok \in BOOLEAN :
        IF ~ok
        THEN \E o \in {x \in RemoteOutcomes : x.fail = "client"} :
             /\ req' = [req EXCEPT ![r].pc = "ui_local", ![r].remote = o,
                                   ![r].cloud_call = Raise(o.msg)]
             /\ files' = files
        ELSE /\ req' = [req EXCEPT ![r].pc = "ui_predict"]
             /\ files' = [files EXCEPT ![TempUpload] = r]
    /\ UNCHANGED <<runtime, pkgFile, cache, loads, logs>>
    /\ UNCHANGED calc

\* client.predict(handle_file("temp_upload.mp3")) and the parse of the result
ui_predict(r) ==
    /\ req[r].pc = "ui_predict"
    /\ \E o \in {x \in RemoteOutcomes : x.fail # "client"} :
       LET call == IF o.fail = "predict" THEN Raise(o.msg) ELSE Return(o.response)
       IN  req' = [req EXCEPT ![r].pc = "ui_local",
                              ![r].remote = o,
                              ![r].cloud_call = call,
                              ![r].sent = files[TempUpload],
                              ![r].results.cloud = ui_cloud_parse(req[r].results.cloud, call)]
    /\ UNCHANGED <<runtime, pkgFile, cache, loads, files, logs>>
    /\ UNCHANGED calc

\* load_model() (decorated with st.cache_resource), features, predictions
ui_local(r) ==
    /\ req[r].pc = "ui_local"
    /\ LET body == load_model_body(pkgFile)
           got == LoadResult(TRUE, body)
           lm == got.val
       IN  /\ AfterLoad(TRUE, body)
           /\ \E audio \in Audio : \E d \in DistFor(lm, audio) : \E g \in DirFor(lm, audio) :
                LET results == [req[r].results EXCEPT
                                  !.local = ui_local_branch(req[r].results.local,
                                                            lm, audio, d, g)]
                    shown == [req[r] EXCEPT
                                  !.pc = "done",
                                  !.read = IF LoadHit(TRUE) THEN "cached" ELSE pkgFile,
                                  !.lm = lm, !.audio = audio, !.dist = d, !.dir = g,
                                  !.results = results,
                                  !.response = Report(results)]
                IN  req' = [req EXCEPT ![r] = Finished(shown)]
    /\ UNCHANGED <<runtime, pkgFile, files, logs>>
    /\ UNCHANGED calc

\* ==================================== ui/main_tabs.py render_main_app, AI tab
\* the values the tab shows next to the weapon: `conf = 0.92`, `l_dist = 124`
conf == Num(1, 0, <<"9", "2">>)
l_dist == 124
\* c_name = cloud_res.get('label', 'M416') if isinstance(cloud_res, dict) else 'M416'
c_name(cloud_res) ==
    IF cloud_res.kind = "dict" /\ "label" \in cloud_res.keys THEN cloud_res.label
    ELSE "M416"
ErrorPage(e) == [kind |-> "error", status |-> e, data |-> InitResults]

\* "启动分析" with an upload: the clip is written to a temporary file of its own
tab_click(r) ==
    /\ runtime = "tabs"
    /\ req[r].pc = "idle"
    /\ \A q \in 1..(r - 1) : req[q].pc # "idle"
    /\ files' = [files EXCEPT ![Tmp(r)] = r]
    /\ req' = [req EXCEPT ![r].pc = "tab_predict", ![r].early = (loads = 0)]
    /\ UNCHANGED <<runtime, pkgFile, cache, loads, logs>>
    /\ UNCHANGED calc

\* predict_cloud(path) and the three values of the result area: the weapon
\* from the response, the confidence and the distance as written in the code.
\* No local model is loaded and no feature is extracted.
tab_predict(r) ==
    /\ req[r].pc = "tab_predict"
    /\ \E o \in RemoteOutcomes :
        LET call == predict_cloud(o) IN
        req' = [req EXCEPT
            ![r].pc = "tab_show",
            ![r].remote = o,
            ![r].cloud_call = call,
            ![r].sent = files[Tmp(r)],
            ![r].results =
                IF call.raised THEN InitResults
                ELSE [cloud |-> [label |-> c_name(call.val), confidence |-> conf],
                      local |-> [distance |-> Num(1, l_dist, <<>>),
                                 direction |-> NA]]]        \* no direction is shown
    /\ UNCHANGED <<runtime, pkgFile, cache, loads, files, logs>>
    /\ UNCHANGED calc

\* the three result columns, log_action(db, user, "AI_USE", {"res": c_name}),
\* `except Exception: st.error`, and the finally clause removing the file
tab_show(r) ==
    /\ req[r].pc = "tab_show"
    /\ \E insert \in {"ok", "fail"} :
        LET call == IF req[r].cloud_call.raised THEN Raise(req[r].cloud_call.exc)
                    ELSE log_action(logs, "up", "s1", "AI_USE",
                                    [res |-> req[r].results.cloud.label], insert)
        IN  /\ logs' = IF call.raised THEN logs ELSE call.val
            /\ req' = [req EXCEPT
                    ![r].pc = "tab_shown",
                    ![r].audit = IF insert = "fail" THEN "failed" ELSE "logged",
                    ![r].response = IF call.raised THEN ErrorPage(call.exc)
                                    ELSE Report(req[r].results)]
    /\ files' = [files EXCEPT ![Tmp(r)] = -1]
    /\ UNCHANGED <<runtime, pkgFile, cache, loads>>
    /\ UNCHANGED calc

\* the page stays until the session's next rerun
tab_rerun(r) ==
    /\ req[r].pc = "tab_shown"
    /\ req' = [req EXCEPT ![r] = Finished(req[r])]
    /\ UNCHANGED <<runtime, pkgFile, cache, loads, files, logs>>
    /\ UNCHANGED calc

Next ==
    \/ \E r \in Req : arrive(r)
    \/ \E r \in Req : analyze_begin(r)
    \/ \E r \in Req : analyze_cloud(r)
    \/ \E r \in Req : analyze_local(r)
    \/ \E r \in Req : analyze_log(r)
    \/ \E r \in Req : analyze_finally(r)
    \/ \E r \in Req : ui_click(r)
    \/ \E r \in Req : ui_client(r)
    \/ \E r \in Req : ui_predict(r)
    \/ \E r \in Req : ui_local(r)
    \/ \E r \in Req : tab_click(r)
    \/ \E r \in Req : tab_predict(r)
    \/ \E r \in Req : tab_show(r)
    \/ \E r \in Req : tab_rerun(r)
    \/ \E r \in Req : predict_never_returns(r)

Spec == Init /\ [][Next]_vars
\* the steps of one request
Step(r) ==
    \/ arrive(r) \/ analyze_begin(r) \/ analyze_cloud(r) \/ analyze_local(r)
    \/ analyze_log(r) \/ analyze_finally(r)
    \/ ui_click(r) \/ ui_client(r) \/ ui_predict(r) \/ ui_local(r)
    \/ tab_click(r) \/ tab_predict(r) \/ tab_show(r) \/ tab_rerun(r)
    \/ predict_never_returns(r)

\* ====================================================== the cleanup on its own
\* The labels a classifier can emit: every str of at most MaxLabelLen
\* characters of LabelChars, the labels named above and below, and numbers.
LabelChars == {"0", "1", "m", "M", " ", ".", "-", DEGREE_SIGN, "F", "a", "n"}
Label45degree == Str(<<"4", "5", " ", "d", "e", "g", "r", "e", "e">>)
Label50M == Str(<<" ", "5", "0", " ", "M", " ">>)
LabelInf == Str(<<"i", "n", "f">>)
Label45half == Num(1, 45, <<"5">>)
Labels ==
    {Str(s) : s \in UNION {[1..n -> LabelChars] : n \in 0..MaxLabelLen}}
        \cup {Label100m, LabelFar, Label45deg, LabelNorth, Label45degree, Label50M, LabelInf}
        \cup {Label50, Label45half}
Tasks == {"distance", "direction"}

\* no process: the pipeline variables of a run that only applies a function
NoProcess ==
    /\ runtime = "none"
    /\ pkgFile = "absent"
    /\ cache = [filled |-> FALSE, val |-> "None"]
    /\ loads = 0
    /\ req = [r \in Req |-> Idle]
    /\ files = [p \in Paths |-> -1]
    /\ logs = <<>>

InitClean ==
    /\ NoProcess
    /\ NoStore
    /\ feat = NoFeat
    /\ clean \in {[pc |-> "raw", task |-> t, raw |-> l, out |-> Unused] :
                    t \in Tasks, l \in Labels}

\* main.py 322-331 on raw_dist
cleanup_distance ==
    /\ clean.pc = "raw" /\ clean.task = "distance"
    /\ clean' = [clean EXCEPT !.pc = "done", !.out = distance_cleanup(clean.raw)]
    /\ UNCHANGED <<pipeline, feat, store>>

\* main.py 334-341 on raw_dir
cleanup_direction ==
    /\ clean.pc = "raw" /\ clean.task = "direction"
    /\ clean' = [clean EXCEPT !.pc = "done", !.out = direction_cleanup(clean.raw)]
    /\ UNCHANGED <<pipeline, feat, store>>

NextClean == cleanup_distance \/ cleanup_direction

SpecClean == InitClean /\ [][NextClean]_vars

\* ============================================ feature extraction on its own
\* logic/ai_core.py, and the copies of the same constants in app.py
\* (extract_features_for_prediction) and scripts/extract_features.py
SAMPLE_RATE == 22050
DURATION == 2
N_MFCC == 13
app_SAMPLE_RATE == 22050
app_DURATION == 2
app_N_MFCC == 13
scripts_SAMPLE_RATE == 22050
scripts_DURATION == 2
scripts_N_MFCC == 13

\* the three extractors: logic/ai_core.py extract_features, app.py
\* extract_features_for_prediction, scripts/extract_features.py extract_features
Extractors == {"ai_core", "app", "scripts"}
sample_rate(by) ==
    IF by = "ai_core" THEN SAMPLE_RATE ELSE IF by = "app" THEN app_SAMPLE_RATE
    ELSE scripts_SAMPLE_RATE
duration(by) ==
    IF by = "ai_core" THEN DURATION ELSE IF by = "app" THEN app_DURATION
    ELSE scripts_DURATION
n_mfcc(by) ==
    IF by = "ai_core" THEN N_MFCC ELSE IF by = "app" THEN app_N_MFCC
    ELSE scripts_N_MFCC

\* A sample buffer is a sequence of runs: samples from..to of the decoded
\* clip, in order, or to-from+1 zeros.
Samples(a, b) == IF a <= b THEN <<[src |-> "clip", from |-> a, to |-> b]>> ELSE <<>>
Zeros(k) == IF k > 0 THEN <<[src |-> "zero", from |-> 1, to |-> k]>> ELSE <<>>
RECURSIVE len(_)
len(y) == IF y = <<>> THEN 0 ELSE (Head(y).to - Head(y).from + 1) + len(Tail(y))
\* y[i-1] in Python: k for the clip's k-th sample, 0 for a padding zero
RECURSIVE At(_, _)
At(y, i) ==
    IF y = <<>> THEN -1
    ELSE LET h == Head(y)
             n == h.to - h.from + 1
         IN  IF i <= n THEN (IF h.src = "zero" THEN 0 ELSE h.from + i - 1)
             ELSE At(Tail(y), i - n)

\* The clips: undecodable, or n samples long once decoded at the target rate
ClipLens ==
    (0..Edge) \cup ((SAMPLE_RATE * DURATION - Edge)..(SAMPLE_RATE * DURATION + Edge))
        \cup {2 * SAMPLE_RATE * DURATION}
Clips ==
    {[decodable |-> FALSE, n |-> 0]} \cup {[decodable |-> TRUE, n |-> k] : k \in ClipLens}

librosa_load_whole_file(clip, sr, dur) ==
    IF ~clip.decodable THEN Raise("NoBackendError")
    ELSE Return(Samples(1, clip.n))

\* librosa.load(file, sr=sr, duration=dur): the first dur seconds at most,
\* resampled to sr; raises on a file it cannot decode
librosa_load(clip, sr, dur) ==
    IF ~clip.decodable THEN Raise("NoBackendError")
    ELSE Return(Samples(1, IF clip.n < sr * dur THEN clip.n ELSE sr * dur))

\* np.pad(y, (before, after), 'constant')
np_pad(y, before, after) == Zeros(before) \o y \o Zeros(after)

pad_buffer_centered(y, sr, dur) ==
    IF len(y) < sr * dur
    THEN np_pad(y, (sr * dur - len(y)) \div 2,
                (sr * dur - len(y)) - ((sr * dur - len(y)) \div 2))
    ELSE y

\* `if len(y) < SAMPLE_RATE * DURATION:` pad with zeros at the end
pad_buffer(y, sr, dur) ==
    IF len(y) < sr * dur THEN np_pad(y, 0, sr * dur - len(y)) ELSE y

\* A feature is named by the computation that gives it; mfcc_mean[i] is the
\* mean of the i-th coefficient row of librosa.feature.mfcc(n_mfcc=..).
Feature(fn, i) == [fn |-> fn, i |-> i]
zcr == Feature("zero_crossing_rate", -1)
rms == Feature("rms", -1)
cent == Feature("spectral_centroid", -1)
mfcc_mean(n) == [k \in 1..n |-> Feature("mfcc", k - 1)]
Key(name, i) == [name |-> name, i |-> i]
Item(key, val, numeric) == [key |-> key, val |-> val, numeric |-> numeric]
Positional == Key("", -1)

features_list_append(n) ==
    <<Item(Positional, zcr, TRUE), Item(Positional, rms, TRUE),
      Item(Positional, cent, TRUE), Item(Positional, Feature("mfcc_mean", -1), FALSE)>>

\* ai_core.py 105-107: features = [zcr, rms, cent]; features.extend(mfcc_mean);
\* np.array([features]) has one row with these entries
features_list(n) ==
    <<Item(Positional, zcr, TRUE), Item(Positional, rms, TRUE),
      Item(Positional, cent, TRUE)>>
        \o [k \in 1..n |-> Item(Positional, mfcc_mean(n)[k], TRUE)]

features_dict_mfcc_first(n) ==
    [k \in 1..n |-> Item(Key("mfcc_", k - 1), mfcc_mean(n)[k], TRUE)]
        \o <<Item(Key("zcr", -1), zcr, TRUE), Item(Key("rms", -1), rms, TRUE),
             Item(Key("spectral_centroid", -1), cent, TRUE)>>

\* scripts/extract_features.py 75-85: the dict, in insertion order
features_dict(n) ==
    <<Item(Key("zcr", -1), zcr, TRUE), Item(Key("rms", -1), rms, TRUE),
      Item(Key("spectral_centroid", -1), cent, TRUE)>>
        \o [k \in 1..n |-> Item(Key("mfcc_", k - 1), mfcc_mean(n)[k], TRUE)]

\* np.array([features]).shape
shape(out) == <<1, Len(out.items)>>

Label(name) == Item(Key(name, -1), Feature("label", -1), FALSE)
\* process_dataset: row = {**meta_info, **features, "dataset": dataset_type}
row_columns(features) ==
    <<Label("weapon"), Label("distance"), Label("direction")>>
        \o features \o <<Label("dataset")>>
\* train_model.py 33-38, 71: df.drop(columns=drop_cols), select_dtypes(number),
\* list(X.columns)
drop_cols == {"weapon", "distance", "direction", "dataset"}
X_columns(columns) ==
    SelectSeq(columns, LAMBDA c : c.key.name \notin drop_cols /\ c.numeric)

InitFeat ==
    /\ NoProcess
    /\ NoStore
    /\ clean = NoClean
    /\ feat \in {[NoFeat EXCEPT !.pc = "file", !.by = b, !.clip = c] :
                   b \in Extractors, c \in Clips}

\* y, sr = librosa.load(...); an exception ends the extractor with None
fx_load ==
    /\ feat.pc = "file"
    /\ LET r == librosa_load(feat.clip, sample_rate(feat.by), duration(feat.by))
       IN  feat' = IF r.raised
                   THEN [feat EXCEPT !.pc = "done", !.out = [kind |-> "None", items |-> <<>>]]
                   ELSE [feat EXCEPT !.pc = "loaded", !.y = r.val]
    /\ UNCHANGED <<pipeline, clean, store>>

\* the padding step
fx_pad ==
    /\ feat.pc = "loaded"
    /\ feat' = [feat EXCEPT !.pc = "buffer",
                            !.y = pad_buffer(feat.y, sample_rate(feat.by), duration(feat.by))]
    /\ UNCHANGED <<pipeline, clean, store>>

\* zcr, rms, centroid, mfcc and the assembly; an exception gives None
fx_features ==
    /\ feat.pc = "buffer"
    /\ \E ok \in BOOLEAN :
        feat' = IF ~ok
                THEN [feat EXCEPT !.pc = "done", !.out = [kind |-> "None", items |-> <<>>]]
                ELSE IF feat.by = "scripts"
                THEN [feat EXCEPT !.pc = "done",
                                  !.out = [kind |-> "dict",
                                           items |-> features_dict(n_mfcc(feat.by))]]
                ELSE [feat EXCEPT !.pc = "done",
                                  !.out = [kind |-> "array",
                                           items |-> features_list(n_mfcc(feat.by))]]
    /\ UNCHANGED <<pipeline, clean, store>>

\* scripts/extract_features.py process_dataset: `if features:` the row goes
\* into the DataFrame that is written to the CSV
process_dataset ==
    /\ feat.pc = "done" /\ feat.by = "scripts"
    /\ feat.out.kind = "dict" /\ feat.out.items # <<>>
    /\ feat' = [feat EXCEPT !.pc = "csv", !.columns = row_columns(feat.out.items)]
    /\ UNCHANGED <<pipeline, clean, store>>

\* scripts/train_model.py train: the feature columns and feature_names
train ==
    /\ feat.pc = "csv"
    /\ feat' = [feat EXCEPT !.pc = "trained", !.feature_names = X_columns(feat.columns)]
    /\ UNCHANGED <<pipeline, clean, store>>

NextFeat == fx_load \/ fx_pad \/ fx_features \/ process_dataset \/ train

SpecFeat == InitFeat /\ [][NextFeat]_vars

\* ================================= accounts, inventory and weapons (MongoDB)
\* backend/main.py's handlers are plain `def`: FastAPI runs each in a worker
\* thread, so two handlers interleave between their database operations.  Each
\* pymongo operation is atomic on its document.
NThread == 2
Thread == 1..NThread
\* how many requests are made in a run: of the account handlers and of the
\* inventory handlers under interleaving, and of all handlers one at a time
MaxCalls == 3
MaxStoreCalls == 1

\* os.getenv("ADMIN_STUDENT_ID", "admin"), os.getenv("ADMIN_PASSWORD", "admin123")
ADMIN_STUDENT_ID == <<"a", "d", "m", "i", "n">>
ADMIN_PASSWORD == <<"admin123">>

make_hash_plaintext(password) == password

\* utils/database.py make_hash: the SHA-256 hex digest of the password, a
\* string that is not the password; two passwords have the same digest only
\* when they are equal.  (Passwords and digests are sequences of pieces.)
make_hash(password) == <<"sha256">> \o password

check_hashes_ignores_password(password, hashed_text) == TRUE

\* utils/database.py check_hashes
check_hashes(password, hashed_text) == make_hash(password) = hashed_text

\* ---- documents
None == [student_id |-> <<"<None>">>, password |-> <<>>, role |-> "", inventory |-> <<>>]
User(student_id, password, role, inventory) ==
    [student_id |-> student_id, password |-> password, role |-> role,
     inventory |-> inventory]
\* a null array element, as $unset leaves it
Null == [weapon_name |-> "<null>", ammo_count |-> 0, added_at |-> 0]
Entry(weapon_name, ammo_count, added_at) ==
    [weapon_name |-> weapon_name, ammo_count |-> ammo_count, added_at |-> added_at]

\* ---- pymongo on the users collection
Matching(coll, student_id) == {i \in 1..Len(coll) : coll[i].student_id = student_id}
First(S) == CHOOSE i \in S : \A j \in S : i <= j
find_one_any(coll, student_id) == IF coll = <<>> THEN None ELSE coll[1]

\* collection.find_one({"student_id": ..}): the first match in natural order
find_one(coll, student_id) ==
    IF Matching(coll, student_id) = {} THEN None
    ELSE coll[First(Matching(coll, student_id))]
\* collection.insert_one(doc): no unique index is declared on student_id
insert_one(coll, doc) == Append(coll, doc)
\* {"$set": {"role": role}}, {"$push": ..}, {"$unset": ..}, {"$pull": ..} through
\* update_one: the first matching document is changed, none when no match
set_role(coll, student_id, role) ==
    IF Matching(coll, student_id) = {} THEN coll
    ELSE [coll EXCEPT ![First(Matching(coll, student_id))].role = role]
update_inventory(coll, student_id, inventory) ==
    IF Matching(coll, student_id) = {} THEN coll
    ELSE [coll EXCEPT ![First(Matching(coll, student_id))].inventory = inventory]
push(inventory, item) == Append(inventory, item)
\* {"$unset": {"inventory.<index>": 1}}: the element becomes null, the array
\* keeps its length; an index past the end changes nothing
unset(inventory, index) ==
    IF index + 1 \in 1..Len(inventory) THEN [inventory EXCEPT ![index + 1] = Null]
    ELSE inventory
\* {"$pull": {"inventory": None}}: every null element is removed
pull(inventory) == SelectSeq(inventory, LAMBDA x : x # Null)

\* log_action(..., level=...): the entry carries the level given
log_action_level(coll, db, user_id, action_type, details, level, insert) ==
    LET done == log_action(coll, db, user_id, action_type, details, insert)
    IN  IF done.raised \/ done.val = coll THEN done
        ELSE Return([done.val EXCEPT ![Len(done.val)].level = level])


\* ---- requests
IdU == <<"u">>
StudentIds == {IdU, <<" ">> \o IdU, ADMIN_STUDENT_ID, ADMIN_STUDENT_ID \o <<" ">>, <<>>}
Passwords == {<<"p">>, <<"q">>}
WeaponNames == {"AKM", "M416"}
Indexes == -1..3
\* the request as the client sends it; x_student_id is the X-Student-Id header
Request(op, student_id, password, index, weapon_name, x_student_id) ==
    [op |-> op, student_id |-> student_id, password |-> password, index |-> index,
     weapon_name |-> weapon_name, x_student_id |-> x_student_id]
AccountRequests ==
    {Request("register", s, p, 0, "", <<>>) : s \in {IdU, <<" ">> \o IdU}, p \in Passwords}
    \cup {Request("register", s, <<"p">>, 0, "", <<>>) :
            s \in {ADMIN_STUDENT_ID, ADMIN_STUDENT_ID \o <<" ">>, <<>>}}
    \cup {Request("ui_register", s, <<"q">>, 0, "", <<>>) :
            s \in {IdU, <<" ">> \o IdU, ADMIN_STUDENT_ID \o <<" ">>}}
    \cup {Request("login", s, p, 0, "", <<>>) : s \in {IdU, <<" ">> \o IdU}, p \in Passwords}
    \cup {Request("login", ADMIN_STUDENT_ID, ADMIN_PASSWORD, 0, "", <<>>)}
InventoryRequests ==
    {Request("delete", IdU, <<>>, i, "", <<>>) : i \in Indexes}
    \cup {Request("delete", ADMIN_STUDENT_ID, <<>>, 0, "", <<>>)}
    \cup {Request("add", s, <<>>, 0, "AKM", <<>>) : s \in {IdU, <<" ">> \o IdU}}
WeaponRequests ==
    {Request("update_weapon", <<>>, <<>>, 0, w, x) :
        w \in WeaponNames, x \in {<<>>, IdU, ADMIN_STUDENT_ID}}
Requests == AccountRequests \cup InventoryRequests \cup WeaponRequests
\* the requests that meet on one document when they interleave
ContendingAccountRequests ==
    {q \in AccountRequests :
        \/ q.op = "login" /\ q.student_id = IdU
        \/ q.op = "register" /\ q.student_id = IdU
        \/ q.op = "register" /\ q.student_id = <<" ">> \o IdU /\ q.password = <<"p">>
        \/ q.op = "ui_register" /\ q.student_id = IdU}
ContendingInventoryRequests ==
    {q \in InventoryRequests : q.student_id = IdU /\ (q.op = "delete" => q.index \in 0..1)}

\* a worker thread: the request it serves, where it is in the handler, the
\* handler's locals, and the response (status 0: none yet)
IdleCall ==
    [pc |-> "idle", request |-> Request("none", <<>>, <<>>, 0, "", <<>>),
     student_id |-> <<>>, role |-> "", removed_item |-> Null,
     item |-> Null, status |-> 0, detail |-> ""]
\* the response goes out and the handler's frame is gone
Answer(c, status, detail) ==
    [IdleCall EXCEPT !.pc = "done", !.status = status, !.detail = detail]
\* a handler after its call of log_action: the logs collection, and the answer,
\* which is the handler's own unless the call raised (the exception would leave
\* the handler, FastAPI answers 500)
Logged(coll, done) == IF done.raised THEN coll ELSE done.val
after_log(c, done, status, detail) ==
    IF done.raised THEN Answer(c, 500, done.exc) ELSE Answer(c, status, detail)

\* ---- stored states the system starts from
\* a user registered earlier with password "p" who added three weapons, two of
\* them with the same name
Inventory3 == <<Entry("AKM", 30, -3), Entry("M416", 30, -2), Entry("AKM", 30, -1)>>
\* a user document written before roles existed (no role field) under the admin id
LegacyAdmin == User(ADMIN_STUDENT_ID, make_hash(ADMIN_PASSWORD), "<missing>", <<>>)
InitialUsers ==
    { <<>>,
      <<User(IdU, make_hash(<<"p">>), "user", Inventory3)>>,
      <<LegacyAdmin>> }
Weapon(damage, type) == [damage |-> damage, type |-> type]
InitialWeapons == [w \in {"AKM"} |-> Weapon(47, "AR")]

InitStore ==
    /\ runtime = "api"
    /\ pkgFile = "absent"
    /\ cache = [filled |-> FALSE, val |-> "None"]
    /\ loads = 0
    /\ req = [r \in Req |-> Idle]
    /\ files = [p \in Paths |-> -1]
    /\ logs = <<>>
    /\ clean = NoClean
    /\ feat = NoFeat
    /\ database \in {"up", "none"}
    /\ users \in InitialUsers
    /\ game_weapons = InitialWeapons
    /\ calls = [t \in Thread |-> IdleCall]
    /\ started = 0

Frame == UNCHANGED <<runtime, pkgFile, cache, loads, req, files, clean, feat, database>>

\* a request reaches a free worker thread
receive(t, requests, max) ==
    /\ calls[t].pc \in {"idle", "done"}
    /\ started < max
    /\ \E q \in requests :
        calls' = [calls EXCEPT ![t] = [IdleCall EXCEPT !.pc = q.op, !.request = q]]
    /\ started' = started + 1
    /\ UNCHANGED <<users, game_weapons, logs>>
    /\ Frame

\* ------------------------------------------------------ backend/main.py login
\* `if user and check_hashes(req.password, user['password'])` on the document
\* find_one gives for the id as sent
password_accepted(coll, student_id, password) ==
    /\ find_one(coll, student_id) # None
    /\ check_hashes(password, find_one(coll, student_id).password)

\* get_db(), find_one, check_hashes
login(t) ==
    /\ calls[t].pc = "login"
    /\ LET c == calls[t]
           user == find_one(users, c.request.student_id)
       IN  calls' = [calls EXCEPT ![t] =
             IF database = "none" THEN Answer(c, 500, "Database connection failed")
             ELSE IF password_accepted(users, c.request.student_id, c.request.password)
             THEN [c EXCEPT !.pc = "login_log", !.status = 200,
                            !.student_id = user.student_id,
                            !.role = IF user.role = "<missing>" THEN "user" ELSE user.role]
             ELSE [c EXCEPT !.pc = "login_log", !.status = 401]]
    /\ UNCHANGED <<users, game_weapons, logs, started>>
    /\ Frame

\* log_action(db, ..., "LOGIN" / "LOGIN_FAILED"), then the return or the raise
login_log(t) ==
    /\ calls[t].pc = "login_log"
    /\ LET c == calls[t] IN
       \E insert \in {"ok", "fail"} :
        LET done == IF c.status = 200
                    THEN log_action_level(logs, database, c.request.student_id, "LOGIN",
                                          [role |-> c.role], "INFO", insert)
                    ELSE log_action_level(logs, database, c.request.student_id,
                                          "LOGIN_FAILED", [reason |-> "x"], "WARN", insert)
        IN  /\ logs' = Logged(logs, done)
            /\ calls' = [calls EXCEPT ![t] =
                            after_log(c, done, c.status, IF c.status = 200 THEN "success"
                                                        ELSE "credentials")]
    /\ UNCHANGED <<users, game_weapons, started>>
    /\ Frame

\* --------------------------------------------------- backend/main.py register
reserved_unchecked(student_id) == FALSE

\* `student_id == admin_id` (main.py), `new_user.strip() == _get_reserved_admin_id()`
\* (login.py), on the trimmed id
reserved(student_id) == student_id = ADMIN_STUDENT_ID

\* get_db(), strip, the two 400 checks, find_one
register(t) ==
    /\ calls[t].pc = "register"
    /\ LET c == calls[t]
           student_id == strip(c.request.student_id)
       IN  calls' = [calls EXCEPT ![t] =
             IF database = "none" THEN Answer(c, 500, "Database connection failed")
             ELSE IF student_id = <<>> THEN Answer(c, 400, "empty")
             ELSE IF reserved(student_id) THEN Answer(c, 400, "reserved")
             ELSE IF find_one(users, student_id) # None
             THEN [c EXCEPT !.pc = "register_failed_log", !.student_id = student_id,
                            !.status = 409]
             ELSE [c EXCEPT !.pc = "register_insert", !.student_id = student_id]]
    /\ UNCHANGED <<users, game_weapons, logs, started>>
    /\ Frame

register_failed_log(t) ==
    /\ calls[t].pc = "register_failed_log"
    /\ LET c == calls[t] IN
       \E insert \in {"ok", "fail"} :
        LET done == log_action_level(logs, database, c.student_id, "REGISTER_FAILED",
                                            [reason |-> "x"], "WARN", insert)
        IN  /\ logs' = Logged(logs, done)
            /\ calls' = [calls EXCEPT ![t] = after_log(c, done, 409, "exists")]
    /\ UNCHANGED <<users, game_weapons, started>>
    /\ Frame

\* db.users.insert_one({... "role": "user", "inventory": []})
register_insert(t) ==
    /\ calls[t].pc = "register_insert"
    /\ LET c == calls[t] IN
        /\ users' = insert_one(users, User(c.student_id, make_hash(c.request.password),
                                           "user", <<>>))
        /\ calls' = [calls EXCEPT ![t] = [c EXCEPT !.pc = "register_log"]]
    /\ UNCHANGED <<game_weapons, logs, started>>
    /\ Frame

register_log(t) ==
    /\ calls[t].pc = "register_log"
    /\ LET c == calls[t] IN
       \E insert \in {"ok", "fail"} :
        LET done == log_action_level(logs, database, c.student_id, "REGISTER",
                                            [role |-> "user"], "INFO", insert)
        IN  /\ logs' = Logged(logs, done)
            /\ calls' = [calls EXCEPT ![t] = after_log(c, done, 200, "success")]
    /\ UNCHANGED <<users, game_weapons, started>>
    /\ Frame

\* ------------------------------------------- ui/login.py render_login, tab2
\* the button "立即注册": the reserved-id check on the trimmed input, then
\* find_one on the input as typed (the two password fields are equal here)
ui_register(t) ==
    /\ calls[t].pc = "ui_register"
    /\ LET c == calls[t]
           new_user == c.request.student_id
       IN  calls' = [calls EXCEPT ![t] =
             IF database = "none" THEN Answer(c, 0, "no page")    \* render_login returns
             ELSE IF reserved(strip(new_user)) THEN Answer(c, 400, "reserved")
             ELSE IF find_one(users, new_user) # None THEN Answer(c, 409, "exists")
             ELSE [c EXCEPT !.pc = "ui_register_insert", !.student_id = new_user]]
    /\ UNCHANGED <<users, game_weapons, logs, started>>
    /\ Frame

ui_register_insert(t) ==
    /\ calls[t].pc = "ui_register_insert"
    /\ LET c == calls[t] IN
        /\ users' = insert_one(users, User(c.student_id, make_hash(c.request.password),
                                           "user", <<>>))
        /\ calls' = [calls EXCEPT ![t] = [c EXCEPT !.pc = "ui_register_log"]]
    /\ UNCHANGED <<game_weapons, logs, started>>
    /\ Frame

ui_register_log(t) ==
    /\ calls[t].pc = "ui_register_log"
    /\ LET c == calls[t] IN
       \E insert \in {"ok", "fail"} :
        LET done == log_action_level(logs, database, c.student_id, "REGISTER",
                                            [text |-> "x"], "INFO", insert)
        IN  /\ logs' = Logged(logs, done)
            /\ calls' = [calls EXCEPT ![t] = after_log(c, done, 200, "success")]
    /\ UNCHANGED <<users, game_weapons, started>>
    /\ Frame

\* ---------------------------------------- backend/main.py delete_inventory_item
\* get_db(), find_one, the bounds check, removed_item = inventory[index]
delete_inventory_item(t) ==
    /\ calls[t].pc = "delete"
    /\ LET c == calls[t]
           user == find_one(users, c.request.student_id)
           index == c.request.index
       IN  calls' = [calls EXCEPT ![t] =
             IF database = "none" THEN Answer(c, 500, "Database connection failed")
             ELSE IF user = None THEN Answer(c, 404, "no user")
             ELSE IF index < 0 \/ index >= Len(user.inventory) THEN Answer(c, 400, "index")
             ELSE [c EXCEPT !.pc = "delete_unset", !.student_id = c.request.student_id,
                            !.removed_item = user.inventory[index + 1]]]
    /\ UNCHANGED <<users, game_weapons, logs, started>>
    /\ Frame

\* update_one(.., {"$unset": {f"inventory.{index}": 1}})
delete_unset(t) ==
    /\ calls[t].pc = "delete_unset"
    /\ LET c == calls[t]
           stored == find_one(users, c.student_id).inventory
       IN  /\ users' = update_inventory(users, c.student_id, unset(stored, c.request.index))
           /\ calls' = [calls EXCEPT ![t] = [c EXCEPT !.pc = "delete_pull"]]
    /\ UNCHANGED <<game_weapons, logs, started>>
    /\ Frame

\* update_one(.., {"$pull": {"inventory": None}})
delete_pull(t) ==
    /\ calls[t].pc = "delete_pull"
    /\ LET c == calls[t]
           stored == find_one(users, c.student_id).inventory
       IN  /\ users' = update_inventory(users, c.student_id, pull(stored))
           /\ calls' = [calls EXCEPT ![t] = [c EXCEPT !.pc = "delete_log"]]
    /\ UNCHANGED <<game_weapons, logs, started>>
    /\ Frame

delete_log(t) ==
    /\ calls[t].pc = "delete_log"
    /\ LET c == calls[t] IN
       \E insert \in {"ok", "fail"} :
        LET done == log_action_level(logs, database, c.student_id, "INVENTORY_DELETE",
                                            [index |-> c.request.index, item |-> c.removed_item],
                                            "INFO", insert)
        IN  /\ logs' = Logged(logs, done)
            /\ calls' = [calls EXCEPT ![t] = after_log(c, done, 200, "success")]
    /\ UNCHANGED <<users, game_weapons, started>>
    /\ Frame

\* --------------------------------------------- backend/main.py add_to_inventory
\* the item, update_one(.., {"$push": {"inventory": item}}), modified_count.
\* get_db() is not checked: without a handle db.users raises AttributeError,
\* which FastAPI answers with 500.
add_to_inventory(t) ==
    /\ calls[t].pc = "add"
    /\ LET c == calls[t]
           item == Entry(c.request.weapon_name, 30, started)   \* added_at: now()
           matched == Matching(users, c.request.student_id) # {}
       IN  IF database = "none"
           THEN /\ calls' = [calls EXCEPT ![t] = Answer(c, 500, "AttributeError")]
                /\ users' = users
           ELSE IF matched
           THEN /\ users' = update_inventory(users, c.request.student_id,
                        push(find_one(users, c.request.student_id).inventory, item))
                /\ calls' = [calls EXCEPT ![t] =
                        [c EXCEPT !.pc = "add_log", !.item = item,
                                  !.student_id = c.request.student_id]]
           ELSE /\ users' = users
                /\ calls' = [calls EXCEPT ![t] = Answer(c, 400, "add failed")]
    /\ UNCHANGED <<game_weapons, logs, started>>
    /\ Frame

add_log(t) ==
    /\ calls[t].pc = "add_log"
    /\ LET c == calls[t] IN
       \E insert \in {"ok", "fail"} :
        LET done == log_action_level(logs, database, c.student_id, "ADD_ITEM",
                                            [weapon_name |-> c.item.weapon_name,
                                             ammo_count |-> c.item.ammo_count,
                                             added_at |-> c.item.added_at], "INFO", insert)
        IN  /\ logs' = Logged(logs, done)
            /\ calls' = [calls EXCEPT ![t] = after_log(c, done, 200, "success")]
    /\ UNCHANGED <<users, game_weapons, started>>
    /\ Frame

\* ------------------------------------------------ backend/main.py update_weapon
\* the new values a request carries
NewWeapon == Weapon(48, "SMG")
\* The handler takes `name` and the body only: it declares no X-Student-Id
\* header and does not call _require_admin.
update_weapon(t) ==
    /\ calls[t].pc = "update_weapon"
    /\ LET c == calls[t]
           name == c.request.weapon_name
       IN  IF database = "none"
           THEN /\ calls' = [calls EXCEPT ![t] = Answer(c, 500, "AttributeError")]
                /\ game_weapons' = game_weapons
           ELSE IF name \in DOMAIN game_weapons
           THEN /\ game_weapons' = [game_weapons EXCEPT ![name] = NewWeapon]
                /\ calls' = [calls EXCEPT ![t] = Answer(c, 200, "success")]
           ELSE /\ game_weapons' = game_weapons
                /\ calls' = [calls EXCEPT ![t] = Answer(c, 404, "no weapon")]
    /\ UNCHANGED <<users, logs, started>>
    /\ Frame

\* ------------------------------------------------------------ admin bootstrap
\* find_one on the admin id; none: insert the admin document; one whose role
\* is not "admin": $set the role
ensure_admin_always_inserts(coll) ==
    insert_one(coll, User(ADMIN_STUDENT_ID, make_hash(ADMIN_PASSWORD), "admin", <<>>))

\* ensure_admin_user after get_db (main.py), ensure_admin(db) (init_db.py)
ensure_admin(coll) ==
    IF find_one(coll, ADMIN_STUDENT_ID) = None
    THEN insert_one(coll, User(ADMIN_STUDENT_ID, make_hash(ADMIN_PASSWORD), "admin", <<>>))
    ELSE IF find_one(coll, ADMIN_STUDENT_ID).role # "admin"
    THEN set_role(coll, ADMIN_STUDENT_ID, "admin")
    ELSE coll

\* backend/main.py ensure_admin_user, on startup: the process starts (again)
\* while it serves nothing
ensure_admin_user(max) ==
    /\ \A t \in Thread : calls[t].pc \in {"idle", "done"}
    /\ started < max
    /\ started' = started + 1
    /\ users' = IF database = "none" THEN users ELSE ensure_admin(users)
    /\ calls' = [t \in Thread |-> IdleCall]
    /\ UNCHANGED <<game_weapons, logs>>
    /\ Frame

\* scripts/init_db.py: its own connection (None: SystemExit(1)), ensure_admin(db)
init_db(max) ==
    /\ started < max
    /\ started' = started + 1
    /\ \E connected \in BOOLEAN :
        users' = IF connected /\ database = "up" THEN ensure_admin(users) ELSE users
    /\ UNCHANGED <<game_weapons, logs, calls>>
    /\ Frame

\* the account handlers and the bootstrap, interleaved
NextAccounts ==
    \/ \E t \in Thread : receive(t, ContendingAccountRequests, MaxCalls)
    \/ \E t \in Thread : login(t)
    \/ \E t \in Thread : login_log(t)
    \/ \E t \in Thread : register(t)
    \/ \E t \in Thread : register_failed_log(t)
    \/ \E t \in Thread : register_insert(t)
    \/ \E t \in Thread : register_log(t)
    \/ \E t \in Thread : ui_register(t)
    \/ \E t \in Thread : ui_register_insert(t)
    \/ \E t \in Thread : ui_register_log(t)
    \/ ensure_admin_user(MaxCalls)
    \/ init_db(MaxCalls)

SpecAccounts == InitStore /\ [][NextAccounts]_vars

\* the inventory handlers, interleaved
NextInventory ==
    \/ \E t \in Thread : receive(t, ContendingInventoryRequests, MaxCalls)
    \/ \E t \in Thread : delete_inventory_item(t)
    \/ \E t \in Thread : delete_unset(t)
    \/ \E t \in Thread : delete_pull(t)
    \/ \E t \in Thread : delete_log(t)
    \/ \E t \in Thread : add_to_inventory(t)
    \/ \E t \in Thread : add_log(t)

SpecInventory == InitStore /\ [][NextInventory]_vars

\* every handler, one request after the other
NextStore ==
    \/ \E t \in Thread : receive(t, Requests, MaxStoreCalls)
    \/ \E t \in Thread : login(t)
    \/ \E t \in Thread : login_log(t)
    \/ \E t \in Thread : register(t)
    \/ \E t \in Thread : register_failed_log(t)
    \/ \E t \in Thread : register_insert(t)
    \/ \E t \in Thread : register_log(t)
    \/ \E t \in Thread : ui_register(t)
    \/ \E t \in Thread : ui_register_insert(t)
    \/ \E t \in Thread : ui_register_log(t)
    \/ \E t \in Thread : delete_inventory_item(t)
    \/ \E t \in Thread : delete_unset(t)
    \/ \E t \in Thread : delete_pull(t)
    \/ \E t \in Thread : delete_log(t)
    \/ \E t \in Thread : add_to_inventory(t)
    \/ \E t \in Thread : add_log(t)
    \/ \E t \in Thread : update_weapon(t)
    \/ ensure_admin_user(MaxStoreCalls)
    \/ init_db(MaxStoreCalls)

SpecStore == InitStore /\ [][NextStore]_vars

\* ==================================================================== claims
Api == runtime = "api"
\* the request has run its local step (load, features, predictions)
PastLocal(r) == req[r].lm # "unset"
\* The handlers whose outcome is fixed: they are at their finally clause and
\* the response is what the caller gets.
Answered == {req[r] : r \in {x \in Req : req[x].pc = "finally"}}
\* the requests in flight or finished
Seen == {req[r] : r \in Req}
IsValue(v) == v.t \in {"str", "num", "inf", "nan"}
RemoteRaised(q) == q.remote.fail \in {"client", "predict"}
LocalAvailable(q) ==
    /\ q.lm = "full" /\ q.audio = "ok"
    /\ ~q.dist.raised /\ ~q.dir.raised

\* C1: an analysis request whose audio is decodable and whose upload was
\* stored always ends with a success report carrying the weapon, distance and
\* direction fields, and no exception leaves analyze_audio, whatever the
\* remote call, the model package, the feature extraction, the classifiers
\* and the audit log do.
C1_AlwaysAReport ==
    Api => \A q \in Answered :
        q.audio # "undecodable" =>
            /\ q.response.kind = "report"
            /\ q.response.status = "success"
            /\ q.response.data.cloud.label # ""
            /\ IsValue(q.response.data.cloud.confidence)
            /\ IsValue(q.response.data.local.distance)
            /\ IsValue(q.response.data.local.direction)
C1_Witness ==
    \E r \in Req :
        /\ Api /\ req[r].pc = "finally"
        /\ req[r].remote.fail = "predict"
        /\ req[r].lm = "full" /\ req[r].audio = "ok" /\ req[r].dist = Raise("ValueError")
        /\ req[r].audit = "failed"
        /\ req[r].response.kind = "report"

\* C2 (as claimed): undecodable audio ends the request with an error and no
\* report is returned, with or without a loaded package.
C2_DecodeErrorAborts ==
    Api => \A q \in Answered :
        q.audio = "undecodable" => q.response.kind = "exception"
\* C2 (amended): undecodable audio is absorbed by extract_features; the
\* request returns a success report whose distance and direction are "N/A".
C2_DecodeErrorDegrades ==
    Api => \A q \in Answered :
        q.audio = "undecodable" =>
            /\ q.response.kind = "report"
            /\ q.response.status = "success"
            /\ q.response.data.local.distance = NA
            /\ q.response.data.local.direction = NA
C2_Witness ==
    \E r \in Req :
        /\ Api /\ req[r].pc = "finally"
        /\ req[r].audio = "undecodable" /\ req[r].lm = "full"
        /\ req[r].response.kind = "report"
        /\ req[r].response.data.cloud.label = "AKM"

\* C3 (as claimed): when the remote call fails the report's weapon label is
\* "N/A" with confidence 0.0 and the request is not aborted.
C3_RemoteFailureGivesNA ==
    Api => \A q \in Answered :
        RemoteRaised(q) =>
            /\ q.response.kind = "report"
            /\ q.response.data.cloud.label = "N/A"
            /\ q.response.data.cloud.confidence = Zero
\* C3 (amended): when the remote call raises or times out (predict_cloud's
\* error marker), the request is not aborted, the weapon label is "Unknown"
\* with confidence 0.0, and distance and direction are populated when the
\* local models are available.
C3_RemoteFailureGivesUnknown ==
    Api => \A q \in Answered :
        RemoteRaised(q) =>
            /\ q.response.kind = "report"
            /\ q.response.data.cloud.label = "Unknown"
            /\ q.response.data.cloud.confidence = Zero
            /\ LocalAvailable(q) =>
                /\ q.response.data.local.distance # NA
                /\ q.response.data.local.direction # NA
C3_Witness ==
    \E r \in Req :
        /\ Api /\ req[r].pc = "finally"
        /\ req[r].remote.fail = "predict"
        /\ LocalAvailable(req[r])
        /\ req[r].response.data.cloud.label = "Unknown"
        /\ req[r].response.data.local.distance = Num(1, 100, <<>>)

\* C4: predict_cloud never raises; an exception from creating the client or
\* from the prediction call comes back as an error-tagged dict carrying the
\* exception's message.
C4_PredictCloudNeverRaises ==
    Api => \A q \in Seen :
        q.remote.fail # "unset" =>
            /\ ~q.cloud_call.raised
            /\ RemoteRaised(q) =>
                /\ q.cloud_call.val.kind = "dict"
                /\ "error" \in q.cloud_call.val.keys
                /\ q.cloud_call.val.error = q.remote.msg
C4_Witness ==
    \E r \in Req :
        /\ Api /\ req[r].remote.fail = "client"
        /\ ~req[r].cloud_call.raised
        /\ req[r].cloud_call.val.error = "Connection refused"

\* C5: with the package file absent or unreadable the loader returns None
\* without raising, and every report made in that process has distance and
\* direction "N/A".
C5_MissingPackageGivesNA ==
    pkgFile \in {"absent", "corrupt"} =>
        /\ \A q \in Seen : q.lm # "unset" =>
            /\ ~q.load_raised
            /\ q.lm = "None"
            /\ q.results.local.distance = NA
            /\ q.results.local.direction = NA
        /\ \A q \in Answered :
            /\ q.response.kind = "report"
            /\ q.response.data.local = InitLocal
C5_Witness ==
    /\ Api /\ pkgFile = "corrupt"
    /\ \E r \in Req :
        /\ req[r].pc = "finally" /\ req[r].lm = "None"
        /\ req[r].response.kind = "report"
        /\ req[r].response.data.local.distance = NA
        /\ \A x \in Req \ {r} : req[x].pc = "done" /\ req[x].lm = "None"

\* the request ran the loader's body itself (it read the package file)
ReadFile(r) == PastLocal(r) /\ req[r].read # "cached"

\* C6 (as claimed): in either kind of process the package file is read at
\* most once per process lifetime.
C6_LoadedAtMostOnce == loads <= 1
\* C6 (amended): under the Streamlit runtime the package is read at most once
\* and later requests reuse the cached result; in the API backend nothing is
\* cached and every analysis request that reaches the local step reads the
\* package file again.
C6_LoadedOncePerRuntime ==
    /\ runtime = "streamlit" =>
        /\ loads <= 1
        /\ \A r \in Req : PastLocal(r) =>
            /\ loads = 1
            /\ req[r].lm = cache.val
    /\ Api =>
        /\ loads = Cardinality({r \in Req : PastLocal(r)})
        /\ \A r \in Req : PastLocal(r) => req[r].read = pkgFile
        /\ ~cache.filled
C6_Witness ==
    /\ runtime = "streamlit"
    /\ \A r \in Req : req[r].pc = "done"
    /\ \E r \in Req : req[r].read = "cached" /\ req[r].lm = "full"
    /\ loads = 1

\* C7 (as claimed): of two requests that both arrived before any load, only
\* one executes the package load and both use its result.
C7_SingleLoaderRace ==
    \A a, b \in Req :
        (a # b /\ req[a].early /\ req[b].early /\ PastLocal(a) /\ PastLocal(b)) =>
            /\ ~(ReadFile(a) /\ ReadFile(b))
            /\ loads = 1
            /\ req[a].lm = req[b].lm
\* C7 (amended): under the Streamlit runtime the load goes through
\* st.cache_resource, so of two concurrent first requests exactly one executes
\* the load and both use its result; in the API backend the loader is neither
\* cached nor locked: each request executes its own load, and the loads do not
\* overlap only because the event loop runs one handler at a time.
C7_SingleLoaderUnderStreamlit ==
    /\ runtime = "streamlit" =>
        \A a, b \in Req :
            (a # b /\ req[a].early /\ req[b].early /\ PastLocal(a) /\ PastLocal(b)) =>
                /\ ~(ReadFile(a) /\ ReadFile(b))
                /\ \E r \in Req : ReadFile(r)
                /\ loads = 1
                /\ req[a].lm = req[b].lm
    /\ Api =>
        /\ Cardinality({r \in Req : req[r].pc \in Running}) <= 1
        /\ \A r \in Req : PastLocal(r) => ReadFile(r)
C7_Witness ==
    /\ runtime = "streamlit"
    /\ \E a, b \in Req :
        /\ a # b /\ req[a].early /\ req[b].early
        /\ req[a].pc = "done" /\ req[b].pc = "done"
        /\ ReadFile(a) /\ ~ReadFile(b)
        /\ req[b].lm = "full"

\* C8: the two branches of one analysis are independent: the distance and
\* direction of the report are what the package, the clip and the classifiers
\* give from the defaults, whatever the remote call did, and the weapon is
\* what the remote outcome gives from the defaults, whatever the local branch
\* did; neither failure keeps the report from being returned.
C8_BranchesIndependent ==
    Api => \A q \in Answered :
        /\ q.response.kind = "report"
        /\ q.response.data.local =
              IF q.load_raised THEN InitLocal
              ELSE local_branch(InitLocal, q.lm, q.audio, q.dist, q.dir)
        /\ q.response.data.cloud = cloud_parse(InitCloud, q.cloud_call)
C8_Witness ==
    /\ Api
    /\ \E r \in Req :
        /\ req[r].pc = "finally"
        /\ LocalAvailable(req[r])
        /\ req[r].remote.fail = "predict"
        /\ req[r].response.data.cloud = InitCloud
        /\ req[r].response.data.local.distance = LabelFar
        /\ req[r].response.data.local.direction # NA

\* C9 (as claimed): when exactly one of the two local classifiers fails, only
\* that task's field is "N/A" and the other task's prediction is in the report.
C9_PerTaskFailure ==
    Api => \A q \in Answered :
        (q.lm = "full" /\ q.audio = "ok") =>
            /\ q.response.kind = "report"
            /\ (q.dist.raised /\ ~q.dir.raised) =>
                /\ q.response.data.local.distance = NA
                /\ q.response.data.local.direction = clean_direction(q.dir.val)
            /\ (~q.dist.raised /\ q.dir.raised) =>
                /\ q.response.data.local.direction = NA
                /\ q.response.data.local.distance = clean_distance(q.dist.val)

\* C10: a legacy package (the train_model.py dict or a bare estimator, no
\* "models" mapping) gives distance and direction "N/A", no exception
\* reaches the caller and the weapon half of the report is still produced.
C10_LegacyPackageSkipsLocal ==
    Api =>
        /\ \A q \in Seen : q.lm \in {"train_dict", "bare_clf"} =>
            q.results.local = InitLocal
        /\ \A q \in Answered : q.lm \in {"train_dict", "bare_clf"} =>
            /\ q.response.kind = "report"
            /\ q.response.status = "success"
            /\ q.response.data.local = InitLocal
            /\ q.remote.response = RespLabelConf /\ q.remote.fail = "none" =>
                q.response.data.cloud = [label |-> "AKM", confidence |-> Conf95]
C10_Witness ==
    \E r \in Req :
        /\ Api /\ req[r].pc = "finally"
        /\ req[r].lm = "bare_clf" /\ req[r].audio = "ok"
        /\ req[r].response.kind = "report"
        /\ req[r].response.data.cloud.label = "AKM"
        /\ req[r].response.data.local.direction = NA

\* The remote service answered (no exception): its response is one of the shapes.
RemoteAnswered(q) == q.remote.fail = "none"
\* the confidence a response lists for a label; none listed: 0.0
ListedConfidence(res, label) ==
    IF \E i \in 1..Len(res.confidences) : res.confidences[i].label = label
    THEN res.confidences[CHOOSE i \in 1..Len(res.confidences) :
                            res.confidences[i].label = label].confidence
    ELSE Zero

\* C11 (as claimed): each of the three response shapes is normalized to one
\* (label, confidence) pair: a dict with label and confidences gives (label,
\* the confidence listed for it); a bare class-to-score dict gives (the class
\* with the highest score, that score); a plain string gives (the string,
\* 0.0); with no confidence obtainable the confidence is 0.0.
C11_ThreeShapesNormalized ==
    Api => \A q \in Answered :
        RemoteAnswered(q) =>
            LET res == q.remote.response
                got == q.response.data.cloud
            IN  /\ (res.kind = "dict" /\ "label" \in res.keys) =>
                    /\ got.label = res.label
                    /\ got.confidence = ListedConfidence(res, res.label)
                /\ (res.kind = "dict" /\ "label" \notin res.keys /\ res.scores # <<>>) =>
                    /\ got.label = res.scores[ArgMax(res.scores)].label
                    /\ got.confidence = res.scores[ArgMax(res.scores)].confidence
                /\ res.kind = "str" =>
                    /\ got.label = res.text
                    /\ got.confidence = Zero

\* ------------------------------------------------------- the label cleanup
Cleaned == clean.pc = "done"
Letters(s) ==
    s # <<>> /\ \A i \in 1..Len(s) : IndexIn(s[i], Upper) > 0 \/ IndexIn(s[i], LowerOf) > 0
\* a label that is digits followed by one unit character
DigitsThenUnit(raw, unit) ==
    /\ raw.t = "str" /\ Len(raw.s) >= 2
    /\ raw.s[Len(raw.s)] = unit
    /\ IsDigits(SubSeq(raw.s, 1, Len(raw.s) - 1))
NumberBeforeUnit(raw) == Num(1, DigitsToNat(SubSeq(raw.s, 1, Len(raw.s) - 1)), <<>>)
\* the label lower-cased and without the task's unit markers
Unitless(task, s) ==
    IF task = "distance" THEN remove(lower(s), <<"m">>)
    ELSE remove(remove(lower(s), <<DEGREE_SIGN>>), <<"d", "e", "g", "r", "e", "e">>)
\* the words float() reads as numbers
FloatWords == {<<"i","n","f">>, <<"i","n","f","i","n","i","t","y">>, <<"n","a","n">>}

\* C12: a distance label of digits followed by "m" ("100m") is reported as
\* that number (100.0), a direction label of digits followed by the degree
\* sign as that number (45.0), a label made of letters that spells no number
\* ("Far") is reported unchanged, and no label makes a cleanup raise.
C12_UnitStripping ==
    Cleaned =>
        /\ ~clean.out.raised
        /\ (clean.task = "distance" /\ clean.raw = Label100m) =>
                clean.out.val = Num(1, 100, <<>>)
        /\ (clean.task = "direction" /\ clean.raw = Label45deg) =>
                clean.out.val = Num(1, 45, <<>>)
        /\ clean.raw = LabelFar => clean.out.val = LabelFar
        /\ (clean.task = "distance" /\ DigitsThenUnit(clean.raw, "m")) =>
                clean.out.val = NumberBeforeUnit(clean.raw)
        /\ (clean.task = "direction" /\ DigitsThenUnit(clean.raw, DEGREE_SIGN)) =>
                clean.out.val = NumberBeforeUnit(clean.raw)
        /\ (/\ clean.raw.t = "str" /\ Letters(clean.raw.s)
            /\ Unitless(clean.task, clean.raw.s) \notin FloatWords) =>
                clean.out.val = clean.raw
C12_Witness ==
    /\ Cleaned /\ clean.task = "distance"
    /\ clean.raw = Str(<<"1", "0", "m">>)
    /\ clean.out = Return(Num(1, 10, <<>>))

\* C13 (as claimed): every string label goes through lower-case, unit
\* removal, whitespace strip and a numeric parse, and when the parse fails the
\* report carries the cleaned string.
C13_ReportsCleanedString ==
    (Cleaned /\ clean.raw.t = "str") =>
        LET c == strip(Unitless(clean.task, clean.raw.s))
        IN  clean.out = IF float(Str(c)).raised THEN Return(Str(c))
                        ELSE Return(float(Str(c)).val)
\* C13 (amended): the steps run in that order, each task with its own unit
\* markers ("m" for distance, the degree sign and "degree" for direction,
\* every occurrence); when the parse fails the report carries the label as the
\* classifier emitted it, not the cleaned string.
C13_ReportsRawLabel ==
    (Cleaned /\ clean.raw.t = "str") =>
        LET c == strip(Unitless(clean.task, clean.raw.s))
        IN  clean.out = IF float(Str(c)).raised THEN Return(clean.raw)
                        ELSE Return(float(Str(c)).val)
C13_Witness ==
    /\ Cleaned /\ clean.task = "direction"
    /\ clean.raw = Str(<<" ", "F", DEGREE_SIGN>>)
    /\ strip(Unitless(clean.task, clean.raw.s)) = <<"f">>
    /\ clean.out = Return(clean.raw)

\* ------------------------------------------------------ the sample buffer
\* the buffer has left the loading step (load and padding) of an extractor
Buffered == feat.pc = "buffer"
\* how many of the clip's samples fit the buffer
Kept == IF feat.clip.n < SAMPLE_RATE * DURATION THEN feat.clip.n
        ELSE SAMPLE_RATE * DURATION

\* C14: every buffer that leaves the loading step has exactly
\* SAMPLE_RATE * DURATION = 44100 samples, for a clip that is shorter, longer
\* or exactly that long.
C14_BufferLength ==
    Buffered =>
        /\ len(feat.y) = SAMPLE_RATE * DURATION
        /\ len(feat.y) = 44100
C14_Witness ==
    /\ Buffered /\ feat.by = "ai_core"
    /\ feat.clip.n = SAMPLE_RATE * DURATION + 1
    /\ len(feat.y) = 44100

\* C15: the buffer is the first min(len(s), SR*D) samples of the clip s,
\* unchanged and in order, followed only by zeros.
C15_PadAndTruncateAtEnd ==
    Buffered =>
        /\ len(feat.y) >= Kept
        /\ \A i \in 1..Kept : At(feat.y, i) = i
        /\ \A i \in (Kept + 1)..len(feat.y) : At(feat.y, i) = 0
C15_Witness ==
    /\ Buffered /\ feat.by = "scripts"
    /\ feat.clip.n = 2
    /\ At(feat.y, 1) = 1 /\ At(feat.y, 2) = 2
    /\ At(feat.y, 3) = 0 /\ At(feat.y, SAMPLE_RATE * DURATION) = 0

\* ------------------------------------------------------ the feature vector
\* an inference extractor (ai_core.py, app.py) returned a result, not None
Extracted == feat.pc = "done" /\ feat.out.kind = "array"
\* [zcr, rms, centroid, mfcc_0, ..., mfcc_{N-1}]
ExpectedOrder ==
    [i \in 1..(3 + N_MFCC) |->
        IF i = 1 THEN Feature("zero_crossing_rate", -1)
        ELSE IF i = 2 THEN Feature("rms", -1)
        ELSE IF i = 3 THEN Feature("spectral_centroid", -1)
        ELSE Feature("mfcc", i - 4)]

\* C16: whenever extract_features returns a result, it is one row of exactly
\* 3 + N_MFCC = 16 numbers, shape (1, 16), whatever the clip.
C16_FeatureRowShape ==
    Extracted =>
        /\ shape(feat.out) = <<1, 3 + N_MFCC>>
        /\ shape(feat.out) = <<1, 16>>
        /\ \A i \in 1..Len(feat.out.items) : feat.out.items[i].numeric
C16_Witness ==
    /\ Extracted /\ feat.by = "ai_core"
    /\ feat.clip.n = 0
    /\ shape(feat.out) = <<1, 16>>

\* C17: the inference vector is ordered [zcr, rms, centroid, mfcc_0, ...,
\* mfcc_{N-1}], and the feature columns the training script records as
\* feature_names have the same length and, position by position, the same
\* feature.
C17_SameOrderAsTraining ==
    /\ Extracted =>
        /\ Len(feat.out.items) = Len(ExpectedOrder)
        /\ \A i \in 1..Len(ExpectedOrder) : feat.out.items[i].val = ExpectedOrder[i]
    /\ feat.pc = "trained" =>
        LET inference == features_list(N_MFCC)
        IN  /\ Len(feat.feature_names) = Len(inference)
            /\ \A i \in 1..Len(inference) :
                    feat.feature_names[i].val = inference[i].val
C17_Witness ==
    /\ feat.pc = "trained"
    /\ Len(feat.feature_names) = 16
    /\ feat.feature_names[3].key = Key("spectral_centroid", -1)
    /\ feat.feature_names[4].key = Key("mfcc_", 0)
    /\ feat.feature_names[16].val = Feature("mfcc", 12)

\* ------------------------------------------- where distance and direction come from
\* the reports: the API's responses and the pages of the UI's analysis tab
Reports == Answered \cup {req[r] : r \in {x \in Req : req[x].pc = "tab_shown"}}
\* what the local predictor gave for the request's clip, raw or cleaned
PredictedDistance(q) ==
    IF q.dist = Unused \/ q.dist.raised THEN {}
    ELSE {q.dist.val, clean_distance(q.dist.val)}
PredictedDirection(q) ==
    IF q.dir = Unused \/ q.dir.raised THEN {}
    ELSE {q.dir.val, clean_direction(q.dir.val)}

\* C18 (as claimed): in every report of an analysis path, API or UI tab, the
\* distance and the direction are the local predictor's output for the
\* submitted clip or "N/A", never a value of the remote response and never a
\* fixed constant.
C18_LocalFieldsFromLocalPredictor ==
    \A q \in Reports :
        q.response.kind = "report" =>
            /\ q.response.data.local.distance \in {NA} \cup PredictedDistance(q)
            /\ q.response.data.local.direction \in {NA} \cup PredictedDirection(q)

\* ------------------------------------------------------ the remote call ends
\* C19 (as claimed): the remote call is bounded: a request that is inside the
\* remote call always has a step that takes it on (the answer, a failure or
\* the timeout), so it never hangs there, even when the service never answers.
C19_RemoteCallBounded ==
    \A r \in Req :
        req[r].pc \in CallingRemote \cup {"waiting"} => ENABLED Step(r)

\* ----------------------------------------------- the file the training writes
\* C20 (as claimed): the file train_model.py persists has the format the
\* runtime reads: an analysis that loaded it finds the "models" mapping, calls
\* the distance and the direction classifier on a clip that has features, and
\* reports their predictions rather than "N/A" when they return.
C20_TrainedPackageIsRead ==
    Api => \A q \in Answered :
        q.read = train_model_dump =>
            /\ ~models_of(q.lm).raised
            /\ q.audio = "ok" => q.dist # Unused /\ q.dir # Unused
            /\ q.audio = "ok" /\ ~q.dist.raised /\ ~q.dir.raised =>
                /\ q.response.data.local.distance # NA
                /\ q.response.data.local.direction # NA

\* ------------------------------------------------------------ student ids
\* C21 (as claimed): student_id is unique: whatever registrations were made and
\* however they interleaved, the users collection holds at most one document
\* per student_id.
C21_StudentIdUnique ==
    \A i, j \in 1..Len(users) :
        users[i].student_id = users[j].student_id => i = j

\* ------------------------------------------------------------- passwords
\* the registration has stored its user and is about to answer "success"
Registering == {calls[t] : t \in {x \in Thread : calls[x].pc \in {"register_log", "ui_register_log"}}}

InventoryOf(coll, student_id) == find_one(coll, student_id).inventory

\* C23 (as claimed): a successful delete removes exactly one entry, the one it
\* found at position `index` when it read the inventory, and leaves every
\* other entry in place, also when other add or delete requests for the user
\* interleave with it: the entry its $unset blanks is that entry, and its
\* $pull takes away blanked entries only.
C23_DeleteRemovesIndexedEntry ==
    [][\A t \in Thread :
        LET c == calls[t]
            before == InventoryOf(users, c.student_id)
            after == InventoryOf(users', c.student_id)
        IN  /\ (c.pc = "delete_unset" /\ calls'[t].pc = "delete_pull") =>
                /\ c.request.index + 1 \in 1..Len(before)
                /\ before[c.request.index + 1] = c.removed_item
                /\ after = [before EXCEPT ![c.request.index + 1] = Null]
            /\ (c.pc = "delete_pull" /\ calls'[t].pc = "delete_log") =>
                after = SelectSeq(before, LAMBDA x : x # Null)
    ]_vars

\* ------------------------------------------------------------ the admin id
\* the documents under the admin id
AdminDocs(coll) == SelectSeq(coll, LAMBDA u : u.student_id = ADMIN_STUDENT_ID)
RegistrationOps == {"register", "ui_register"}

AdminOk(coll) == Len(AdminDocs(coll)) = 1 /\ AdminDocs(coll)[1].role = "admin"
OtherDocs(coll) == SelectSeq(coll, LAMBDA u : u.student_id # ADMIN_STUDENT_ID)
\* what the bootstrap must not touch in the documents under the admin id
Untouched(coll) == [i \in 1..Len(AdminDocs(coll)) |->
                <<AdminDocs(coll)[i].password, AdminDocs(coll)[i].inventory>>]
\* a step of ensure_admin_user or of init_db: it counts as a start and no
\* thread picks up a request in it
BootstrapStep ==
    /\ started' # started
    /\ \A t \in Thread : calls'[t] = calls[t] \/ calls'[t] = IdleCall

\* C25: the bootstrap is idempotent: run on the collection a start finds, it leaves
\* exactly one user under the admin id, with role admin, and run again it
\* changes nothing; a startup that finds that user leaves the collection as
\* it was, a startup that changes the collection leaves exactly one admin, and
\* no startup touches another user or the password and inventory of an
\* existing admin-id user.
C25_BootstrapIdempotent ==
    [][BootstrapStep =>
            /\ AdminOk(ensure_admin(users))
            /\ ensure_admin(ensure_admin(users)) = ensure_admin(users)
            /\ AdminOk(users) => users' = users
            /\ users' # users => AdminOk(users')
            /\ OtherDocs(users') = OtherDocs(users)
            /\ AdminDocs(users) # <<>> => Untouched(users') = Untouched(users)
    ]_vars
\* the admin user stands next to a registered user when every start the run
\* allows has been made and every thread is at rest
C25_Witness ==
    /\ AdminOk(users)
    /\ OtherDocs(users) # <<>>
    /\ started = MaxCalls
    /\ \A t \in Thread : calls[t] = IdleCall

\* --------------------------------------------------------- weapon updates
\* backend/main.py _require_admin, the dependency of the admin routes: the
\* status it raises, 200 when it returns the id
require_admin(coll, db, x_student_id) ==
    IF x_student_id = <<>> THEN 401
    ELSE IF db = "none" THEN 500
    ELSE IF find_one(coll, x_student_id) = None
            \/ find_one(coll, x_student_id).role # "admin" THEN 403
    ELSE 200

\* C26: PUT /api/weapons/{name} changes game_weapons only for a request whose
\* X-Student-Id names a user with role admin; any other request leaves the
\* collection as it was.
C26_UpdateWeaponAdminOnly ==
    [][\A t \in Thread :
        (calls[t].pc = "update_weapon" /\ calls'[t].pc # "update_weapon"
            /\ require_admin(users, database, calls[t].request.x_student_id) # 200)
        => game_weapons' = game_weapons
    ]_vars

\* ------------------------------------------------------- temporary files
\* C27: when a request of analyze_audio has ended, by a report or by an
\* exception, its temporary file is no longer on disk.
C27_TempFileGoneAtEnd ==
    runtime = "api" =>
        \A r \in Req : req[r].pc = "done" => files[Tmp(r)] = -1

\* C28: the audio a request hands to the remote service is the clip that the
\* same request wrote; no request reads a file another request wrote.
C28_OwnTempFile ==
    \A r \in Req : req[r].sent \in {-1, r}

\* -------------------------------------------------------------- audit log
\* the steps in which a handler calls log_action, and the answer the handler
\* has decided on when it makes the call
LogSteps == {"login_log", "register_failed_log", "register_log", "ui_register_log",
             "delete_log", "add_log"}
Decided(c) ==
    IF c.pc = "login_log" THEN c.status
    ELSE IF c.pc = "register_failed_log" THEN 409
    ELSE 200

\* C29: a handler that calls log_action answers what it had decided to answer,
\* whether the insert into logs succeeds or fails; the call changes nothing but
\* the logs collection, to which it adds at most one entry.
C29_LoggingNeverBreaksFlow ==
    [][\A t \in Thread :
        (calls[t].pc \in LogSteps /\ calls'[t].pc # calls[t].pc) =>
            /\ calls'[t].pc = "done"
            /\ calls'[t].status = Decided(calls[t])
            /\ users' = users /\ game_weapons' = game_weapons
            /\ logs' = logs \/ (Len(logs') = Len(logs) + 1
                                /\ SubSeq(logs', 1, Len(logs)) = logs)
    ]_vars
\* a registration answered success and stored its user although the insert
\* into logs failed
C29_Witness ==
    /\ logs = <<>>
    /\ \E t \in Thread : calls[t].pc = "done" /\ calls[t].status = 200
    /\ \E i \in 1..Len(users) : users[i].password = make_hash(<<"q">>)

\* ------------------------------------------------ rejected inventory requests
Unknown(student_id) == \A i \in 1..Len(users) : users[i].student_id # student_id
\* the stored inventory of a known user, read without the handler's lookup
StoredInventory(student_id) ==
    users[First({i \in 1..Len(users) : users[i].student_id = student_id})].inventory
\* what the specification says about the request a thread is about to serve
MustReject(c) ==
    IF c.pc = "delete"
    THEN IF Unknown(c.request.student_id) THEN 404
         ELSE IF c.request.index < 0
                 \/ c.request.index >= Len(StoredInventory(c.request.student_id)) THEN 400
         ELSE 0
    ELSE IF c.pc = "add" /\ Unknown(c.request.student_id) THEN 400
    ELSE 0

\* C30: with the database at hand, a delete for an unknown user is answered
\* 404, a delete with an index below 0 or at or above the inventory length is
\* answered 400 and an add for an unknown user is answered 400; the step that
\* rejects an inventory request changes no user and no audit entry, and the
\* request takes no further step.
C30_RejectedChangesNothing ==
    [][\A t \in Thread :
        LET c == calls[t]
            d == calls'[t]
        IN  (c.pc \in {"delete", "add"} /\ d.pc # c.pc) =>
            /\ (database = "up" /\ MustReject(c) # 0) =>
                    d.pc = "done" /\ d.status = MustReject(c)
            /\ (d.pc = "done" /\ d.status \in {400, 404}) =>
                    users' = users /\ logs' = logs
    ]_vars
\* a delete has been rejected for its index while the user's three entries
\* are all in place
C30_Witness ==
    /\ \E t \in Thread : calls[t].pc = "done" /\ calls[t].status = 400
                          /\ calls[t].detail = "index"
    /\ \E i \in 1..Len(users) : users[i].inventory = Inventory3
    /\ logs = <<>>

====
